---- MODULE Spec2Model ----
(***************************************************************************)
(* Model of cf-llm-shadoway.  Spec follows one proxied call from the       *)
(* moment the provider request has been written to the upstream socket     *)
(* until the response has been handed to the caller; SpecDispatch follows  *)
(* an inbound request through the gates, the upstream call and the answer; *)
(* SpecReq and SpecResp apply the format converter to requests and to      *)
(* responses; SpecEndpoint follows the model mapping and the endpoint      *)
(* resolution of the revised index.js; SpecCalls interleaves several calls *)
(* over the objects of module scope.                                       *)
(*                                                                         *)
(* Bytes are modelled as tokens: "CR" and "LF" are single bytes, every     *)
(* other token stands for a run of bytes that holds neither CR nor LF.     *)
(* Network chunks cut the upstream byte sequence between any two tokens.   *)
(***************************************************************************)
EXTENDS Integers, Sequences, FiniteSets, TLC

\* ---------------------------------------------------------------- bounds
MaxFrames == 2      \* SSE frames in an upstream stream body
MaxMembers == 2     \* members of an upstream JSON document
MaxChunk == 3       \* tokens delivered by one reader.read()
CutCap == 2         \* the count of cuts inside a body saturates here
MaxParts == 2       \* parts of the first candidate of a Gemini response
MaxCands == 2       \* candidates of a Gemini response
MaxMsgs == 2        \* messages of a request
MaxBlocks == 2      \* content blocks of a Claude message

\* ------------------------------------------------------------- utilities
Min(a, b) == IF a < b THEN a ELSE b

HasField(r, k) == k \in DOMAIN r

\* the property `as: obj[key]` of an object literal; a property whose value
\* is undefined is left out, as JSON.stringify leaves it out
Prop(as, obj, key) == IF HasField(obj, key) THEN as :> obj[key] ELSE <<>>

\* sequences over S of length 0..n
SeqsUpTo(S, n) == UNION {[1..m -> S] : m \in 0..n}

\* sequences over S of length 1..n
NonEmptySeqs(S, n) == UNION {[1..m -> S] : m \in 1..n}

\* ------------------------------------------------------ tags and tables
Formats == {"claude", "openai"}

\* PROVIDER_URLS: the keys are the providers parseUrl accepts
PROVIDER_URLS ==
  [gemini    |-> "https://generativelanguage.googleapis.com/v1beta",
   openai    |-> "https://api.openai.com/v1",
   anthropic |-> "https://api.anthropic.com/v1"]

Providers == DOMAIN PROVIDER_URLS

\* MODEL_MAPPING: the provider's name of a model, by provider
MODEL_MAPPING ==
  [gemini |-> ("gemini-2.5-pro" :> "models/gemini-2.0-flash-exp")
              @@ ("gemini-2.5-flash" :> "models/gemini-2.0-flash-exp")
              @@ ("gemini-pro" :> "models/gemini-pro"),
   openai |-> ("gpt-4o" :> "gpt-4o") @@ ("gpt-4o-mini" :> "gpt-4o-mini")
              @@ ("gpt-4" :> "gpt-4"),
   anthropic |-> ("claude-3-sonnet" :> "claude-3-5-sonnet-20241022")
                 @@ ("claude-3-haiku" :> "claude-3-5-haiku-20241022")]

\* the two objects of module scope, as the module sets them up
ModuleTables ==
  [PROVIDER_URLS |-> PROVIDER_URLS, MODEL_MAPPING |-> MODEL_MAPPING]

\* the JSON value of the stream member of the request body
StreamVals == {"absent", "false", "true", "\"true\""}

\* --------------------------------------------------------- wire alphabet
CR == "CR"
LF == "LF"
CRLF == <<CR, LF>>

StatusLines == {"HTTP/1.1 200 OK", "HTTP/1.1 429 Too Many Requests"}

\* statusLine.match(/HTTP\/[\d.]+\s+(\d+)/) on one token; 0 when no match
StatusOfToken(tok) ==
  CASE tok = "HTTP/1.1 200 OK" -> 200
    [] tok = "HTTP/1.1 429 Too Many Requests" -> 429
    [] OTHER -> 0

HeaderLines == {"Content-Type: application/json",
                "Content-Type: text/event-stream",
                "Transfer-Encoding: chunked"}

\* key (lower-cased) and value of one header line; the split at the colon
HeaderOfToken(tok) ==
  CASE tok = "Content-Type: application/json" ->
         [key |-> "content-type", value |-> "application/json"]
    [] tok = "Content-Type: text/event-stream" ->
         [key |-> "content-type", value |-> "text/event-stream"]
    [] tok = "Transfer-Encoding: chunked" ->
         [key |-> "transfer-encoding", value |-> "chunked"]
    [] OTHER -> [key |-> "", value |-> ""]

\* --- SSE frames of the three provider grammars (spec section 6)
oaText  == <<"data: ", "{\"choices\":[{\"delta\":", "{\"content\":\"Hi\"}}]}", LF, LF>>
oaDone  == <<"data: ", "[DONE]", LF, LF>>
oaBad   == <<"data: ", "{\"choices\":[{\"delta\":", LF, LF>>
clText  == <<"data: ", "{\"type\":\"content_block_delta\",", "\"delta\":{\"text\":\"Hi\"}}", LF, LF>>
clDelta == <<"data: ", "{\"type\":\"message_delta\",", "\"delta\":{\"stop_reason\":\"end_turn\"}}", LF, LF>>
clStop  == <<"data: ", "{\"type\":\"message_stop\"}", LF, LF>>
clBad   == <<"data: ", "{\"type\":\"content_block_delta\",", LF, LF>>
gmText  == <<"data: ", "{\"candidates\":[{\"content\":", "{\"parts\":[{\"text\":\"Hi\"}]}}]}", CR, LF, CR, LF>>
gmBad   == <<"data: ", "{\"candidates\":[{\"content\":", CR, LF, CR, LF>>

FramesOfProvider(p) ==
  CASE p = "openai"    -> {oaText, oaDone, oaBad}
    [] p = "anthropic" -> {clText, clDelta, clStop, clBad}
    [] p = "gemini"    -> {gmText, gmBad}

RECURSIVE Flatten(_)
Flatten(ss) == IF ss = <<>> THEN <<>> ELSE Head(ss) \o Flatten(Tail(ss))

StreamBodies(p) == {Flatten(fs) : fs \in SeqsUpTo(FramesOfProvider(p), MaxFrames)}

\* --- JSON documents: "{" member* "}", one token per member
gCandT  == "\"candidates\":[{\"content\":{\"parts\":[{\"text\":\"Bonjour\"}]}}]"
gCandTF == "\"candidates\":[{\"content\":{\"parts\":[{\"text\":\"Hi\"},{\"functionCall\":{}}]}}]"
gUsage  == "\"usageMetadata\":{}"
oId      == "\"id\":\"chatcmpl-1\""
oChoices == "\"choices\":[{\"message\":{\"content\":\"Hi\"}}]"
oUsage   == "\"usage\":{\"prompt_tokens\":1}"
aId      == "\"id\":\"msg_up\""
aContent == "\"content\":[{\"type\":\"text\",\"text\":\"Hi\"}]"
aUsage   == "\"usage\":{\"input_tokens\":1}"

MembersOfProvider(p) ==
  CASE p = "gemini"    -> {gCandT, gCandTF, gUsage}
    [] p = "openai"    -> {oId, oChoices, oUsage}
    [] p = "anthropic" -> {aId, aContent, aUsage}

MemberToks == UNION {MembersOfProvider(p) : p \in Providers}

\* the key and the parsed value of a member token
MemberOf(tok) ==
  CASE tok = gCandT ->
         [key |-> "candidates",
          val |-> <<[content |-> [parts |-> <<[text |-> "Bonjour"]>>]]>>]
    [] tok = gCandTF ->
         [key |-> "candidates",
          val |-> <<[content |-> [parts |->
                     <<[text |-> "Hi"],
                       [functionCall |-> [name |-> "get_weather",
                                          args |-> [city |-> "Paris"]]]>>]]>>]
    [] tok = gUsage ->
         [key |-> "usageMetadata",
          val |-> [promptTokenCount |-> 1, candidatesTokenCount |-> 2,
                   totalTokenCount |-> 3]]
    [] tok = oId -> [key |-> "id", val |-> "chatcmpl-1"]
    [] tok = oChoices ->
         [key |-> "choices",
          val |-> <<[index |-> 0,
                     message |-> [role |-> "assistant", content |-> "Hi"],
                     finish_reason |-> "stop"]>>]
    [] tok = oUsage ->
         [key |-> "usage",
          val |-> [prompt_tokens |-> 1, completion_tokens |-> 2,
                   total_tokens |-> 3]]
    [] tok = aId -> [key |-> "id", val |-> "msg_up"]
    [] tok = aContent ->
         [key |-> "content", val |-> <<[type |-> "text", text |-> "Hi"]>>]
    [] tok = aUsage ->
         [key |-> "usage", val |-> [input_tokens |-> 1, output_tokens |-> 2]]

JsonBodies(p) ==
  {<<"{">> \o ms \o <<"}">> : ms \in SeqsUpTo(MembersOfProvider(p), MaxMembers)}

\* outcome of a call that may throw
Ok(v) == [threw |-> FALSE, value |-> v]
Threw(e) == [threw |-> TRUE, error |-> e]

\* response.json(): JSON.parse of the body text; a repeated key keeps its
\* last value
JsonParse(bytes) ==
  IF /\ Len(bytes) >= 2
     /\ bytes[1] = "{"
     /\ bytes[Len(bytes)] = "}"
     /\ \A i \in 2..(Len(bytes) - 1) : bytes[i] \in MemberToks
  THEN LET idx == 2..(Len(bytes) - 1)
           keys == {MemberOf(bytes[i]).key : i \in idx}
           last(k) == CHOOSE i \in idx :
                        /\ MemberOf(bytes[i]).key = k
                        /\ \A j \in idx : MemberOf(bytes[j]).key = k => j <= i
       IN Ok([k \in keys |-> MemberOf(bytes[last(k)]).val])
  ELSE Threw("SyntaxError")

\* ------------------------------------------------------ SocketTransport
\* index (from 0) of the first CR LF CR LF in buffer, -1 when there is none
findHeaderEnd(buffer) ==
  LET hits == {i \in 0..(Len(buffer) - 4) :
                 SubSeq(buffer, i + 1, i + 4) = <<CR, LF, CR, LF>>}
  IN IF hits = {} THEN -1
     ELSE CHOOSE i \in hits : \A j \in hits : i <= j

\* headerText.split('\r\n')
RECURSIVE SplitCRLF(_, _)
SplitCRLF(text, cur) ==
  IF text = <<>> THEN <<cur>>
  ELSE IF Len(text) >= 2 /\ text[1] = CR /\ text[2] = LF
       THEN <<cur>> \o SplitCRLF(SubSeq(text, 3, Len(text)), <<>>)
       ELSE SplitCRLF(Tail(text), Append(cur, Head(text)))

\* the first status code the status-line pattern matches in a line, 0 if none
RECURSIVE StatusMatch(_)
StatusMatch(line) ==
  IF line = <<>> THEN 0
  ELSE IF StatusOfToken(Head(line)) # 0 THEN StatusOfToken(Head(line))
       ELSE StatusMatch(Tail(line))

\* headers.set(key.toLowerCase(), value) for lines[i..]
RECURSIVE HeaderLoop(_, _)
HeaderLoop(lines, headers) ==
  IF lines = <<>> THEN headers
  ELSE LET line == Head(lines)
           h == IF Len(line) = 1 THEN HeaderOfToken(line[1])
                ELSE [key |-> "", value |-> ""]
       IN IF h.key # ""
          THEN HeaderLoop(Tail(lines),
                          [k \in (DOMAIN headers) \cup {h.key} |->
                             IF k = h.key THEN h.value ELSE headers[k]])
          ELSE HeaderLoop(Tail(lines), headers)

NoHeaders == [k \in {} |-> ""]

parseHttpHeaders(headerText) ==
  LET lines == SplitCRLF(headerText, <<>>)
      m == StatusMatch(lines[1])
  IN [status |-> IF m # 0 THEN m ELSE 200,
      headers |-> HeaderLoop(Tail(lines), NoHeaders)]

\* the locals of readHttpResponse before the loop
ReaderInit ==
  [buffer |-> <<>>, headersParsed |-> FALSE, headers |-> NoHeaders,
   statusCode |-> 200, responseBody |-> <<>>]

\* ReadStep with the bytes that follow the header block in the same chunk
\* left out of the body
ReadStepDropsRemainder(rd, value) ==
  LET buffer == rd.buffer \o value
      headerEndIndex == findHeaderEnd(buffer)
  IN IF ~rd.headersParsed
     THEN IF headerEndIndex # -1
          THEN LET result == parseHttpHeaders(SubSeq(buffer, 1, headerEndIndex))
               IN [buffer |-> buffer, headersParsed |-> TRUE,
                   headers |-> result.headers, statusCode |-> result.status,
                   responseBody |-> <<>>]
          ELSE [rd EXCEPT !.buffer = buffer]
     ELSE [rd EXCEPT !.buffer = buffer,
                     !.responseBody = rd.responseBody \o value]

\* one pass of the while loop of readHttpResponse with a chunk `value`
ReadStep(rd, value) ==
  LET buffer == rd.buffer \o value
      headerEndIndex == findHeaderEnd(buffer)
  IN IF ~rd.headersParsed
     THEN IF headerEndIndex # -1
          THEN LET result == parseHttpHeaders(SubSeq(buffer, 1, headerEndIndex))
               IN [buffer |-> buffer, headersParsed |-> TRUE,
                   headers |-> result.headers, statusCode |-> result.status,
                   responseBody |-> SubSeq(buffer, headerEndIndex + 5, Len(buffer))]
          ELSE [rd EXCEPT !.buffer = buffer]
     ELSE [rd EXCEPT !.buffer = buffer,
                     !.responseBody = rd.responseBody \o value]

\* headers.get(name): null is modelled as ""
HeaderGet(headers, name) == IF name \in DOMAIN headers THEN headers[name] ELSE ""

\* Response.ok taking every status below 500 for a success
ResponseOkBelow500(status) == status >= 200 /\ status <= 499

\* Response.ok
ResponseOk(status) == status >= 200 /\ status <= 299

\* ------------------------------------------------------- JS value model
\* a value whose JS type the code tests with typeof: a string or an array
JsString(s) == [t |-> "string", s |-> s]
JsArray(a)  == [t |-> "array", a |-> a]

\* JSON.parse of the argument strings a tool call can carry
JSONparse(text) ==
  CASE text = "{\"city\":\"Paris\"}" -> Ok([city |-> "Paris"])
    [] text = "{}" -> Ok([k \in {} |-> ""])
    [] OTHER -> Threw("SyntaxError")

\* JSON.stringify of the argument objects a function call can carry
JSONstringify(v) ==
  IF v = [city |-> "Paris"] THEN "{\"city\":\"Paris\"}" ELSE "{}"

\* generateId() draws on Date.now() and Math.random(): any id may come out
Ids == {"msg_1_aaa", "msg_1_bbb"}
IdSeqs == [1..2 -> Ids]

\* the ids of a response with up to MaxParts function calls
PartIdSeqs == [1..(MaxParts + 1) -> Ids]

\* Math.floor(Date.now() / 1000)
Times == {1700000000, 1700000001}

\* -------------------------------------------- FormatConverter: requests
\* the content blocks openaiToClaude builds for one message
RECURSIVE openaiToClaudeToolCalls(_)
openaiToClaudeToolCalls(toolCalls) ==
  IF toolCalls = <<>> THEN Ok(<<>>)
  ELSE LET toolCall == Head(toolCalls)
           input == JSONparse(toolCall.function.arguments)
           rest == openaiToClaudeToolCalls(Tail(toolCalls))
       IN IF input.threw THEN input
          ELSE IF rest.threw THEN rest
          ELSE Ok(<<[type |-> "tool_use", id |-> toolCall.id,
                     name |-> toolCall.function.name,
                     input |-> input.value]>> \o rest.value)

openaiToClaudeContent(message) ==
  LET text == IF HasField(message, "content") /\ message.content # ""
              THEN <<[type |-> "text", text |-> message.content]>>
              ELSE <<>>
      calls == IF HasField(message, "tool_calls")
               THEN openaiToClaudeToolCalls(message.tool_calls)
               ELSE Ok(<<>>)
      result == IF message.role = "tool"
                THEN <<[type |-> "tool_result"]
                       @@ (IF HasField(message, "tool_call_id")
                           THEN [tool_use_id |-> message.tool_call_id]
                           ELSE <<>>)
                       @@ (IF HasField(message, "content")
                           THEN [content |-> JsString(message.content)]
                           ELSE <<>>)>>
                ELSE <<>>
  IN IF calls.threw THEN calls
     ELSE Ok(text \o calls.value \o result)

RECURSIVE openaiToClaudeMessages(_)
openaiToClaudeMessages(msgs) ==
  IF msgs = <<>> THEN Ok(<<>>)
  ELSE LET message == Head(msgs)
           content == openaiToClaudeContent(message)
           rest == openaiToClaudeMessages(Tail(msgs))
       IN IF content.threw THEN content
          ELSE IF rest.threw THEN rest
          ELSE IF Len(content.value) > 0
          THEN Ok(<<[role |-> IF message.role = "assistant"
                              THEN "assistant" ELSE "user",
                     content |-> IF Len(content.value) = 1
                                    /\ content.value[1].type = "text"
                                 THEN JsString(content.value[1].text)
                                 ELSE JsArray(content.value)]>> \o rest.value)
          ELSE rest

openaiToClaudeTools(tools) ==
  [i \in 1..Len(tools) |->
     [name |-> tools[i].function.name,
      description |-> tools[i].function.description,
      input_schema |-> tools[i].function.parameters]]

\* copies of the optional members; an undefined member is left out, as it
\* is when the request is serialised
openaiToClaude(openaiRequest) ==
  IF ~HasField(openaiRequest, "messages")
  THEN Threw("TypeError")          \* for (... of undefined)
  ELSE LET messages == openaiToClaudeMessages(openaiRequest.messages)
           opt == {k \in {"model", "stream", "temperature"} :
                     HasField(openaiRequest, k)}
                  \cup (IF HasField(openaiRequest, "max_tokens")
                           /\ openaiRequest.max_tokens # 0
                        THEN {"max_tokens"} ELSE {})
           copied == [k \in opt |-> openaiRequest[k]]
           tools == IF HasField(openaiRequest, "tools")
                       /\ Len(openaiRequest.tools) > 0
                    THEN [tools |-> openaiToClaudeTools(openaiRequest.tools)]
                    ELSE [k \in {} |-> 0]
       IN IF messages.threw THEN messages
          ELSE Ok([messages |-> messages.value] @@ copied @@ tools)

\* the members a converter copies when they are defined, the max_tokens
\* member when it is truthy, and the tools member when it has entries
CopiedMembers(request, keys) ==
  [k \in {k \in keys : HasField(request, k)} |-> request[k]]

TruthyMaxTokens(request) ==
  HasField(request, "max_tokens") /\ request.max_tokens # 0

HasTools(request) == HasField(request, "tools") /\ Len(request.tools) > 0

\* generationConfig of claudeToGemini and openaiToGemini
generationConfig(request) ==
  (IF TruthyMaxTokens(request)
   THEN [maxOutputTokens |-> request.max_tokens] ELSE <<>>)
  @@ CopiedMembers(request, {"temperature"})

\* the inner loop of claudeToGemini over the blocks of one message
RECURSIVE claudeToGeminiParts(_)
claudeToGeminiParts(blocks) ==
  IF blocks = <<>> THEN <<>>
  ELSE LET content == Head(blocks)
       IN (IF content.type = "text" THEN <<[text |-> content.text]>>
           ELSE IF content.type = "tool_use"
           THEN <<[functionCall |->
                     [name |-> content.name, args |-> content.input]]>>
           ELSE <<>>)
          \o claudeToGeminiParts(Tail(blocks))

\* one pass of the outer loop of claudeToGemini: the entry pushed to contents
claudeToGeminiContent(message) ==
  [parts |-> IF message.content.t = "string"
             THEN <<[text |-> message.content.s]>>
             ELSE claudeToGeminiParts(message.content.a),
   role |-> IF message.role = "assistant" THEN "model" ELSE "user"]

claudeToGeminiTools(tools) ==
  <<[functionDeclarations |->
       [i \in 1..Len(tools) |->
          [name |-> tools[i].name,
           description |-> tools[i].description,
           parameters |-> tools[i].input_schema]]]>>

claudeToGemini(claudeRequest) ==
  IF ~HasField(claudeRequest, "messages")
  THEN Threw("TypeError")          \* for (... of undefined)
  ELSE Ok([contents |->
             [i \in 1..Len(claudeRequest.messages) |->
                claudeToGeminiContent(claudeRequest.messages[i])],
           generationConfig |-> generationConfig(claudeRequest)]
          @@ (IF HasTools(claudeRequest)
              THEN [tools |-> claudeToGeminiTools(claudeRequest.tools)]
              ELSE <<>>))

\* textContents.join('\n')
RECURSIVE Join(_)
Join(texts) ==
  IF texts = <<>> THEN ""
  ELSE IF Len(texts) = 1 THEN texts[1]
  ELSE texts[1] \o "\n" \o Join(Tail(texts))

\* the three lists the loop of claudeToOpenAI over the blocks of one
\* message fills: textContents, toolCalls, and the role=tool messages it
\* pushes to messages on the way
RECURSIVE claudeToOpenAIBlocks(_)
claudeToOpenAIBlocks(blocks) ==
  IF blocks = <<>>
  THEN [textContents |-> <<>>, toolCalls |-> <<>>, pushed |-> <<>>]
  ELSE LET content == Head(blocks)
           rest == claudeToOpenAIBlocks(Tail(blocks))
       IN IF content.type = "text"
          THEN [rest EXCEPT !.textContents = <<content.text>> \o @]
          ELSE IF content.type = "tool_use"
          THEN [rest EXCEPT !.toolCalls =
                  <<[id |-> content.id, type |-> "function",
                     function |->
                       [name |-> content.name,
                        arguments |-> JSONstringify(content.input)]]>> \o @]
          ELSE IF content.type = "tool_result"
          THEN [rest EXCEPT !.pushed =
                  <<[role |-> "tool",
                     tool_call_id |-> content.tool_use_id,
                     content |-> IF content.content.t = "string"
                                 THEN content.content.s
                                 ELSE JSONstringify(content.content.a)]>>
                  \o @]
          ELSE rest

\* claudeToOpenAI pushing the message of an array content only when the
\* joined text or the tool calls are truthy
claudeToOpenAIMessageTruthy(message) ==
  LET role == IF message.role = "assistant" THEN "assistant" ELSE "user"
  IN IF message.content.t = "string"
     THEN <<[role |-> role, content |-> message.content.s]>>
     ELSE LET b == claudeToOpenAIBlocks(message.content.a)
          IN b.pushed
             \o (IF Join(b.textContents) # "" \/ Len(b.toolCalls) > 0
                 THEN <<[role |-> role]
                        @@ (IF Join(b.textContents) # ""
                            THEN [content |-> Join(b.textContents)]
                            ELSE <<>>)
                        @@ (IF Len(b.toolCalls) > 0
                            THEN [tool_calls |-> b.toolCalls]
                            ELSE <<>>)>>
                 ELSE <<>>)

\* one pass of the outer loop of claudeToOpenAI: the messages it pushes
claudeToOpenAIMessage(message) ==
  LET role == IF message.role = "assistant" THEN "assistant" ELSE "user"
  IN IF message.content.t = "string"
     THEN <<[role |-> role, content |-> message.content.s]>>
     ELSE LET b == claudeToOpenAIBlocks(message.content.a)
          IN b.pushed
             \o (IF Len(b.textContents) > 0 \/ Len(b.toolCalls) > 0
                 THEN <<[role |-> role]
                        @@ (IF Len(b.textContents) > 0
                            THEN [content |-> Join(b.textContents)]
                            ELSE <<>>)
                        @@ (IF Len(b.toolCalls) > 0
                            THEN [tool_calls |-> b.toolCalls]
                            ELSE <<>>)>>
                 ELSE <<>>)

RECURSIVE claudeToOpenAIMessages(_)
claudeToOpenAIMessages(msgs) ==
  IF msgs = <<>> THEN <<>>
  ELSE claudeToOpenAIMessage(Head(msgs)) \o claudeToOpenAIMessages(Tail(msgs))

claudeToOpenAITools(tools) ==
  [i \in 1..Len(tools) |->
     [type |-> "function",
      function |-> [name |-> tools[i].name,
                    description |-> tools[i].description,
                    parameters |-> tools[i].input_schema]]]

claudeToOpenAI(claudeRequest) ==
  IF ~HasField(claudeRequest, "messages")
  THEN Threw("TypeError")          \* for (... of undefined)
  ELSE Ok([messages |-> claudeToOpenAIMessages(claudeRequest.messages)]
          @@ CopiedMembers(claudeRequest, {"model", "stream", "temperature"})
          @@ (IF TruthyMaxTokens(claudeRequest)
              THEN [max_tokens |-> claudeRequest.max_tokens] ELSE <<>>)
          @@ (IF HasTools(claudeRequest)
              THEN [tools |-> claudeToOpenAITools(claudeRequest.tools)]
              ELSE <<>>))

\* the functionCall parts openaiToGemini builds from message.tool_calls
RECURSIVE openaiToGeminiToolCalls(_)
openaiToGeminiToolCalls(toolCalls) ==
  IF toolCalls = <<>> THEN Ok(<<>>)
  ELSE LET toolCall == Head(toolCalls)
           args == JSONparse(toolCall.function.arguments)
           rest == openaiToGeminiToolCalls(Tail(toolCalls))
       IN IF args.threw THEN args
          ELSE IF rest.threw THEN rest
          ELSE Ok(<<[functionCall |->
                       [name |-> toolCall.function.name,
                        args |-> args.value]]>> \o rest.value)

\* the parts openaiToGemini builds for one message
openaiToGeminiParts(message) ==
  LET text == IF HasField(message, "content") /\ message.content # ""
              THEN <<[text |-> message.content]>>
              ELSE <<>>
      calls == IF HasField(message, "tool_calls")
               THEN openaiToGeminiToolCalls(message.tool_calls)
               ELSE Ok(<<>>)
      result == IF message.role = "tool"
                THEN <<[functionResponse |->
                          [name |-> "function_result",
                           response |->
                             Prop("content", message, "content")]]>>
                ELSE <<>>
  IN IF calls.threw THEN calls
     ELSE Ok(text \o calls.value \o result)

RECURSIVE openaiToGeminiContents(_)
openaiToGeminiContents(msgs) ==
  IF msgs = <<>> THEN Ok(<<>>)
  ELSE LET message == Head(msgs)
           parts == openaiToGeminiParts(message)
           rest == openaiToGeminiContents(Tail(msgs))
       IN IF parts.threw THEN parts
          ELSE IF rest.threw THEN rest
          ELSE IF Len(parts.value) > 0
          THEN Ok(<<[parts |-> parts.value,
                     role |-> IF message.role = "assistant" THEN "model"
                              ELSE IF message.role = "tool" THEN "tool"
                              ELSE "user"]>> \o rest.value)
          ELSE rest

openaiToGeminiTools(tools) ==
  <<[functionDeclarations |->
       [i \in 1..Len(tools) |->
          [name |-> tools[i].function.name,
           description |-> tools[i].function.description,
           parameters |-> tools[i].function.parameters]]]>>

openaiToGemini(openaiRequest) ==
  IF ~HasField(openaiRequest, "messages")
  THEN Threw("TypeError")          \* for (... of undefined)
  ELSE LET contents == openaiToGeminiContents(openaiRequest.messages)
       IN IF contents.threw THEN contents
          ELSE Ok([contents |-> contents.value,
                   generationConfig |-> generationConfig(openaiRequest)]
                  @@ (IF HasTools(openaiRequest)
                      THEN [tools |->
                              openaiToGeminiTools(openaiRequest.tools)]
                      ELSE <<>>))

\* convertFromClaude: the switch over the provider
convertFromClaude(provider, claudeRequest) ==
  CASE provider = "gemini" -> claudeToGemini(claudeRequest)
    [] provider = "openai" -> claudeToOpenAI(claudeRequest)
    [] provider = "anthropic" -> Ok(claudeRequest)
    [] OTHER -> Threw("Error")

\* convertFromOpenAI: the switch over the provider
convertFromOpenAI(provider, openaiRequest) ==
  CASE provider = "gemini" -> openaiToGemini(openaiRequest)
    [] provider = "openai" -> Ok(openaiRequest)
    [] provider = "anthropic" -> openaiToClaude(openaiRequest)
    [] OTHER -> Threw("Error")

\* convertRequest: the outcome the promise it returns settles with
convertRequest(inputFormat, outputProvider, requestBody) ==
  IF inputFormat = "claude"
  THEN convertFromClaude(outputProvider, requestBody)
  ELSE IF inputFormat = "openai"
  THEN convertFromOpenAI(outputProvider, requestBody)
  ELSE Threw("Error")

\* ------------------------------------------ reading a byte sequence as SSE
\* the bytes of an HTTP message that follow its first blank line
RECURSIVE UpstreamBody(_)
UpstreamBody(bytes) ==
  IF Len(bytes) < 4 THEN <<>>
  ELSE IF SubSeq(bytes, 1, 4) = <<CR, LF, CR, LF>>
       THEN SubSeq(bytes, 5, Len(bytes))
       ELSE UpstreamBody(Tail(bytes))

\* the complete frames of an SSE byte sequence, as a consumer reads them: a
\* frame ends at a blank line (LF LF, or CR LF CR LF); a trailing fragment
\* without its blank line is no frame
RECURSIVE SseSplit(_, _)
SseSplit(bytes, cur) ==
  IF bytes = <<>> THEN <<>>
  ELSE IF Len(bytes) >= 2 /\ SubSeq(bytes, 1, 2) = <<LF, LF>>
       THEN <<cur>> \o SseSplit(SubSeq(bytes, 3, Len(bytes)), <<>>)
  ELSE IF Len(bytes) >= 4 /\ SubSeq(bytes, 1, 4) = <<CR, LF, CR, LF>>
       THEN <<cur>> \o SseSplit(SubSeq(bytes, 5, Len(bytes)), <<>>)
  ELSE SseSplit(Tail(bytes), Append(cur, Head(bytes)))

SseFrames(bytes) == SseSplit(bytes, <<>>)

\* what a frame is in the grammar tables of spec section 6
FrameKind(frame) ==
  CASE frame = SubSeq(oaText, 1, 3)  -> "openai_chunk"
    [] frame = SubSeq(oaDone, 1, 2)  -> "done"
    [] frame = SubSeq(clText, 1, 3)  -> "content_block_delta"
    [] frame = SubSeq(clDelta, 1, 3) -> "message_delta"
    [] frame = SubSeq(clStop, 1, 2)  -> "message_stop"
    [] frame = SubSeq(gmText, 1, 3)  -> "gemini_chunk"
    [] OTHER -> "malformed"

FrameKinds(bytes) ==
  LET fr == SseFrames(bytes) IN [i \in 1..Len(fr) |-> FrameKind(fr[i])]

\* the stream grammar of the provider is the grammar of the target format
SameGrammar(p, f) ==
  \/ p = "openai" /\ f = "openai"
  \/ p = "anthropic" /\ f = "claude"

\* ------------------------------------------- FormatConverter: responses
\* a Response: status, Content-Type, and a body that is either the bytes
\* handed on as they are or the JSON text of `data`
BytesResponse(status, contentType, bytes) ==
  [status |-> status, contentType |-> contentType, kind |-> "bytes",
   bytes |-> bytes, data |-> <<>>]

JsonResponse(status, data) ==
  [status |-> status, contentType |-> "application/json", kind |-> "json",
   bytes |-> <<>>, data |-> data]

NoResponse ==
  [status |-> 0, contentType |-> "", kind |-> "none", bytes |-> <<>>,
   data |-> <<>>]

\* the loop over candidate.content.parts of geminiToClaude; `next` is the
\* index of the id the next generateId() call returns
RECURSIVE geminiToClaudeParts(_, _, _)
geminiToClaudeParts(parts, ids, next) ==
  IF parts = <<>> THEN <<>>
  ELSE LET part == Head(parts)
       IN IF HasField(part, "text") /\ part.text # ""
          THEN <<[type |-> "text", text |-> part.text]>>
               \o geminiToClaudeParts(Tail(parts), ids, next)
          ELSE IF HasField(part, "functionCall")
          THEN <<[type |-> "tool_use", id |-> ids[next],
                  name |-> part.functionCall.name,
                  input |-> part.functionCall.args]>>
               \o geminiToClaudeParts(Tail(parts), ids, next + 1)
          ELSE geminiToClaudeParts(Tail(parts), ids, next)

\* geminiToClaude reading the last candidate instead of candidates[0]
geminiToClaudeLastCandidate(geminiResponse, ids) ==
  LET hasCandidate == /\ HasField(geminiResponse, "candidates")
                      /\ Len(geminiResponse.candidates) > 0
      candidate ==
        geminiResponse.candidates[Len(geminiResponse.candidates)]
      usage == IF HasField(geminiResponse, "usageMetadata")
               THEN [usage |->
                      Prop("input_tokens", geminiResponse.usageMetadata,
                           "promptTokenCount")
                      @@ Prop("output_tokens", geminiResponse.usageMetadata,
                              "candidatesTokenCount")]
               ELSE <<>>
  IN IF hasCandidate /\ ~(HasField(candidate, "content")
                          /\ HasField(candidate.content, "parts"))
     THEN Threw("TypeError")
     ELSE Ok([id |-> ids[1], type |-> "message", role |-> "assistant",
              content |-> IF hasCandidate
                          THEN geminiToClaudeParts(candidate.content.parts,
                                                   ids, 2)
                          ELSE <<>>]
             @@ usage)

geminiToClaude(geminiResponse, ids) ==
  LET hasCandidate == /\ HasField(geminiResponse, "candidates")
                      /\ Len(geminiResponse.candidates) > 0
      candidate == geminiResponse.candidates[1]
      usage == IF HasField(geminiResponse, "usageMetadata")
               THEN [usage |->
                      Prop("input_tokens", geminiResponse.usageMetadata,
                           "promptTokenCount")
                      @@ Prop("output_tokens", geminiResponse.usageMetadata,
                              "candidatesTokenCount")]
               ELSE <<>>
  IN IF hasCandidate /\ ~(HasField(candidate, "content")
                          /\ HasField(candidate.content, "parts"))
     THEN Threw("TypeError")
     ELSE Ok([id |-> ids[1], type |-> "message", role |-> "assistant",
              content |-> IF hasCandidate
                          THEN geminiToClaudeParts(candidate.content.parts,
                                                   ids, 2)
                          ELSE <<>>]
             @@ usage)

\* message.content += part.text over the parts
RECURSIVE geminiToOpenAIText(_)
geminiToOpenAIText(parts) ==
  IF parts = <<>> THEN ""
  ELSE LET part == Head(parts)
       IN (IF HasField(part, "text") /\ part.text # "" THEN part.text ELSE "")
          \o geminiToOpenAIText(Tail(parts))

RECURSIVE geminiToOpenAIToolCalls(_, _, _)
geminiToOpenAIToolCalls(parts, ids, next) ==
  IF parts = <<>> THEN <<>>
  ELSE LET part == Head(parts)
       IN IF ~(HasField(part, "text") /\ part.text # "")
             /\ HasField(part, "functionCall")
          THEN <<[id |-> ids[next], type |-> "function",
                  function |->
                    [name |-> part.functionCall.name,
                     arguments |-> JSONstringify(part.functionCall.args)]]>>
               \o geminiToOpenAIToolCalls(Tail(parts), ids, next + 1)
          ELSE geminiToOpenAIToolCalls(Tail(parts), ids, next)

\* geminiToOpenAI defaulting the usage to zeros when the source has none
geminiToOpenAIZeroUsage(geminiResponse, ids, now) ==
  LET hasCandidate == /\ HasField(geminiResponse, "candidates")
                      /\ Len(geminiResponse.candidates) > 0
      candidate == geminiResponse.candidates[1]
      parts == candidate.content.parts
      toolCalls == geminiToOpenAIToolCalls(parts, ids, 2)
      message == [role |-> "assistant", content |-> geminiToOpenAIText(parts)]
                 @@ (IF Len(toolCalls) > 0 THEN [tool_calls |-> toolCalls]
                     ELSE <<>>)
      usage == IF HasField(geminiResponse, "usageMetadata")
               THEN [usage |->
                      Prop("prompt_tokens", geminiResponse.usageMetadata,
                           "promptTokenCount")
                      @@ Prop("completion_tokens",
                              geminiResponse.usageMetadata,
                              "candidatesTokenCount")
                      @@ Prop("total_tokens", geminiResponse.usageMetadata,
                              "totalTokenCount")]
               ELSE [usage |-> [prompt_tokens |-> 0, completion_tokens |-> 0,
                                total_tokens |-> 0]]
  IN IF hasCandidate /\ ~(HasField(candidate, "content")
                          /\ HasField(candidate.content, "parts"))
     THEN Threw("TypeError")
     ELSE Ok([id |-> ids[1], object |-> "chat.completion", created |-> now,
              model |-> "gemini-pro",
              choices |-> IF hasCandidate
                          THEN <<[index |-> 0, message |-> message,
                                  finish_reason |-> "stop"]>>
                          ELSE <<>>]
             @@ usage)

geminiToOpenAI(geminiResponse, ids, now) ==
  LET hasCandidate == /\ HasField(geminiResponse, "candidates")
                      /\ Len(geminiResponse.candidates) > 0
      candidate == geminiResponse.candidates[1]
      parts == candidate.content.parts
      toolCalls == geminiToOpenAIToolCalls(parts, ids, 2)
      message == [role |-> "assistant", content |-> geminiToOpenAIText(parts)]
                 @@ (IF Len(toolCalls) > 0 THEN [tool_calls |-> toolCalls]
                     ELSE <<>>)
      usage == IF HasField(geminiResponse, "usageMetadata")
               THEN [usage |->
                      Prop("prompt_tokens", geminiResponse.usageMetadata,
                           "promptTokenCount")
                      @@ Prop("completion_tokens",
                              geminiResponse.usageMetadata,
                              "candidatesTokenCount")
                      @@ Prop("total_tokens", geminiResponse.usageMetadata,
                              "totalTokenCount")]
               ELSE <<>>
  IN IF hasCandidate /\ ~(HasField(candidate, "content")
                          /\ HasField(candidate.content, "parts"))
     THEN Threw("TypeError")
     ELSE Ok([id |-> ids[1], object |-> "chat.completion", created |-> now,
              model |-> "gemini-pro",
              choices |-> IF hasCandidate
                          THEN <<[index |-> 0, message |-> message,
                                  finish_reason |-> "stop"]>>
                          ELSE <<>>]
             @@ usage)

\* convertToClaude with the anthropic case running the Gemini conversion
convertToClaudeWrongCase(provider, responseData, statusCode, ids) ==
  LET claudeResponse ==
        CASE provider = "gemini" -> geminiToClaude(responseData, ids)
          [] provider = "openai" -> openaiToClaude(responseData)
          [] provider = "anthropic" -> geminiToClaude(responseData, ids)
          [] OTHER -> Threw("Error")
  IN IF claudeResponse.threw THEN claudeResponse
     ELSE Ok(JsonResponse(statusCode, claudeResponse.value))

\* convertToClaude: the switch over the provider, then the Response
convertToClaude(provider, responseData, statusCode, ids) ==
  LET claudeResponse ==
        CASE provider = "gemini" -> geminiToClaude(responseData, ids)
          [] provider = "openai" -> openaiToClaude(responseData)
          [] provider = "anthropic" -> Ok(responseData)
          [] OTHER -> Threw("Error")
  IN IF claudeResponse.threw THEN claudeResponse
     ELSE Ok(JsonResponse(statusCode, claudeResponse.value))

\* convertToOpenAI: the anthropic case calls this.claudeToOpenAIResponse,
\* which the class does not define: the call throws a TypeError
convertToOpenAI(provider, responseData, statusCode, ids, now) ==
  LET openaiResponse ==
        CASE provider = "gemini" -> geminiToOpenAI(responseData, ids, now)
          [] provider = "openai" -> Ok(responseData)
          [] provider = "anthropic" -> Threw("TypeError")
          [] OTHER -> Threw("Error")
  IN IF openaiResponse.threw THEN openaiResponse
     ELSE Ok(JsonResponse(statusCode, openaiResponse.value))

\* contentType.includes('text/event-stream')
IncludesEventStream(contentType) == contentType = "text/event-stream"

isStreamResponse(response, stream) ==
  LET requestStream == stream = "true" \/ stream = "\"true\""
      contentType == HeaderGet(response.headers, "content-type")
      isEventStream == IncludesEventStream(contentType)
      isChunked == HeaderGet(response.headers, "transfer-encoding") = "chunked"
  IN requestStream \/ isEventStream \/ isChunked

\* the complete frames of a body written out again, each closed by LF LF
RECURSIVE Reframe(_)
Reframe(frames) ==
  IF frames = <<>> THEN <<>>
  ELSE Head(frames) \o <<LF, LF>> \o Reframe(Tail(frames))

\* convertResponse with a stream branch that re-serialises the frames
convertResponseReframes(targetFormat, sourceProvider, response, stream, ids, now) ==
  IF isStreamResponse(response, stream)
  THEN Ok(BytesResponse(response.status, "text/event-stream",
                        Reframe(SseFrames(response.body))))
  ELSE LET responseData == JsonParse(response.body)
       IN IF responseData.threw THEN responseData
          ELSE IF targetFormat = "claude"
          THEN convertToClaude(sourceProvider, responseData.value,
                               response.status, ids)
          ELSE IF targetFormat = "openai"
          THEN convertToOpenAI(sourceProvider, responseData.value,
                               response.status, ids, now)
          ELSE Threw("Error")

convertResponse(targetFormat, sourceProvider, response, stream, ids, now) ==
  IF isStreamResponse(response, stream)
  THEN Ok(BytesResponse(response.status, "text/event-stream", response.body))
  ELSE LET responseData == JsonParse(response.body)
       IN IF responseData.threw THEN responseData
          ELSE IF targetFormat = "claude"
          THEN convertToClaude(sourceProvider, responseData.value,
                               response.status, ids)
          ELSE IF targetFormat = "openai"
          THEN convertToOpenAI(sourceProvider, responseData.value,
                               response.status, ids, now)
          ELSE Threw("Error")

\* ------------------------------------------------------ one proxied call
\* what the provider can put on the wire: a status line, at most one header
\* line, the blank line, and a body in the provider's stream grammar or a
\* JSON document of the provider
HeaderBlocks == {<<>>} \cup {<<h>> \o CRLF : h \in HeaderLines}

Bodies(p) == StreamBodies(p) \cup JsonBodies(p)

Wires(p) ==
  {<<st>> \o CRLF \o hb \o CRLF \o body :
     st \in StatusLines, hb \in HeaderBlocks, body \in Bodies(p)}

VARIABLES
  format,            \* the {format} segment of the inbound URL
  provider,          \* the {provider} segment of the inbound URL
  stream,            \* requestBody.stream, as JSON text
  wire,              \* bytes the provider has still to send
  sent,              \* bytes the provider has sent so far
  bodyCuts,          \* chunk boundaries that fell inside the body (history)
  rd,                \* the locals of readHttpResponse
  readerLocked,      \* socket.readable is locked by the reader
  socketClosed,      \* socket.close() was called
  consumerGone,      \* the downstream consumer has disconnected
  providerResponse,  \* the Response transport.fetch resolved to
  downstream,        \* the Response handed to the caller
  pc,                \* "reading", "responding", "done"
  conv,              \* one converter call: its function, input and result
  call,              \* the inbound requests on their way through the handler
  tables             \* the objects of module scope, shared by every call

vars == <<format, provider, stream, wire, sent, bodyCuts, rd, readerLocked,
          socketClosed, consumerGone, providerResponse, downstream, pc,
          conv, call, tables>>

\* no converter call and no inbound request under observation
NoConv == [fn |-> "none"]
NoCall == [pc |-> "none"]

NoProviderResponse == [status |-> 0, headers |-> NoHeaders, body |-> <<>>]

\* the catch of the exported fetch handler
ProxyError(message) ==
  JsonResponse(500, [error |-> message, type |-> "proxy_error"])

\* the request is on the wire, readHttpResponse has taken the reader
Init ==
  /\ format \in Formats
  /\ provider \in Providers
  /\ stream \in StreamVals
  /\ wire \in Wires(provider)
  /\ sent = <<>>
  /\ bodyCuts = 0
  /\ rd = ReaderInit
  /\ readerLocked = TRUE
  /\ socketClosed = FALSE
  /\ consumerGone = FALSE
  /\ providerResponse = NoProviderResponse
  /\ downstream = NoResponse
  /\ pc = "reading"
  /\ conv = NoConv
  /\ call = NoCall
  /\ tables = ModuleTables

\* reader.read() resolves with a chunk of k bytes: one pass of the loop
Read(k) ==
  /\ pc = "reading"
  /\ k \in 1..Min(MaxChunk, Len(wire))
  /\ rd' = ReadStep(rd, SubSeq(wire, 1, k))
  /\ sent' = sent \o SubSeq(wire, 1, k)
  /\ bodyCuts' = IF UpstreamBody(sent) # <<>>
                 THEN Min(bodyCuts + 1, CutCap) ELSE bodyCuts
  /\ wire' = SubSeq(wire, k + 1, Len(wire))
  /\ UNCHANGED <<tables, conv, call, format, provider, stream, readerLocked, socketClosed,
                 consumerGone, providerResponse, downstream, pc>>

\* reader.read() resolves with done, when the provider has closed the
\* connection (at the end of the response or before it): the loop breaks,
\* the Response is built, finally releases the lock, fetch returns it
ReadDone ==
  /\ pc = "reading"
  /\ providerResponse' = [status |-> rd.statusCode, headers |-> rd.headers,
                          body |-> rd.responseBody]
  /\ readerLocked' = FALSE
  /\ pc' = "responding"
  /\ UNCHANGED <<tables, conv, call, format, provider, stream, wire, sent, bodyCuts, rd, socketClosed,
                 consumerGone, downstream>>

\* reader.read() rejects: finally releases the lock, the catch of
\* SocketTransport.fetch closes the socket and rethrows, the catch of the
\* fetch handler answers 500
ReadFail ==
  /\ pc = "reading"
  /\ readerLocked' = FALSE
  /\ socketClosed' = TRUE
  /\ downstream' = ProxyError("Socket transport failed")
  /\ pc' = "done"
  /\ UNCHANGED <<tables, conv, call, format, provider, stream, wire, sent, bodyCuts, rd, consumerGone,
                 providerResponse>>

\* proxyRequest steps 7 and 8, and the catch of the fetch handler
Respond(ids, now) ==
  /\ pc = "responding"
  /\ downstream' =
       IF ~ResponseOk(providerResponse.status)
       THEN BytesResponse(providerResponse.status,
                          HeaderGet(providerResponse.headers, "content-type"),
                          providerResponse.body)
       ELSE LET r == convertResponse(format, provider, providerResponse,
                                     stream, ids, now)
            IN IF r.threw THEN ProxyError(r.error) ELSE r.value
  /\ pc' = "done"
  /\ UNCHANGED <<tables, conv, call, format, provider, stream, wire, sent, bodyCuts, rd,
                 readerLocked, socketClosed, consumerGone, providerResponse>>

\* the caller goes away; nothing in the worker observes it
ConsumerDisconnect ==
  /\ pc # "done"
  /\ ~consumerGone
  /\ consumerGone' = TRUE
  /\ UNCHANGED <<tables, conv, call, format, provider, stream, wire, sent, bodyCuts, rd,
                 readerLocked, socketClosed, providerResponse, downstream, pc>>

Next ==
  \/ \E k \in 1..MaxChunk : Read(k)
  \/ ReadDone
  \/ ReadFail
  \/ \E ids \in IdSeqs, now \in Times : Respond(ids, now)
  \/ ConsumerDisconnect

Spec == Init /\ [][Next]_vars

\* ================================================================ claims
\* the call was answered from a provider response with a success status
AnsweredOk == pc = "done" /\ ResponseOk(providerResponse.status)

\* the request asked for a stream / did not ask for one
StreamRequested == stream = "true"
NoStreamRequested == stream \in {"absent", "false"}

\* the response the transport builds when all of `bytes` arrive as one chunk
OneChunkResponse(bytes) ==
  LET r == IF bytes = <<>> THEN ReaderInit ELSE ReadStep(ReaderInit, bytes)
  IN [status |-> r.statusCode, headers |-> r.headers, body |-> r.responseBody]

\* C1: a streaming call with OpenAI as source and Claude as target whose
\* upstream stream ends with the [DONE] terminator delivers exactly one
\* message_delta frame and then exactly one message_stop frame, and these
\* are the last two frames.
C1_ClosingSequence ==
  LET up == FrameKinds(UpstreamBody(sent))
      ks == FrameKinds(downstream.bytes)
      n == Len(ks)
  IN (/\ AnsweredOk /\ StreamRequested
      /\ format = "claude" /\ provider = "openai"
      /\ wire = <<>> /\ Len(up) > 0 /\ up[Len(up)] = "done")
     => /\ n >= 2
        /\ ks[n - 1] = "message_delta"
        /\ ks[n] = "message_stop"
        /\ Cardinality({i \in 1..n : ks[i] = "message_delta"}) = 1
        /\ Cardinality({i \in 1..n : ks[i] = "message_stop"}) = 1

\* C2: whatever the cuts between the network chunks, the response of a
\* streaming call is the one the same upstream bytes give when they arrive
\* as one contiguous chunk: the same status, the same body bytes, the same
\* frames.
C2_FragmentationInvariance ==
  (pc \in {"responding", "done"} /\ StreamRequested
   /\ providerResponse # NoProviderResponse)
  => /\ providerResponse = OneChunkResponse(sent)
     /\ (downstream.kind = "bytes"
         => /\ downstream.bytes = OneChunkResponse(sent).body
            /\ SseFrames(downstream.bytes) = SseFrames(UpstreamBody(sent)))

\* one Gemini frame that reached the transport in three chunks or more has
\* been delivered as one frame
C2_Witness ==
  /\ AnsweredOk /\ StreamRequested
  /\ UpstreamBody(sent) = gmText
  /\ bodyCuts >= 2
  /\ downstream.kind = "bytes"
  /\ Len(SseFrames(downstream.bytes)) = 1

\* C3: in a streaming call whose source and target grammars are the same,
\* the downstream body is the upstream body, byte for byte and in order.
C3_FastPathIdentity ==
  (AnsweredOk /\ StreamRequested /\ SameGrammar(provider, format))
  => /\ downstream.kind = "bytes"
     /\ downstream.bytes = UpstreamBody(sent)

C3_Witness ==
  /\ AnsweredOk /\ StreamRequested /\ SameGrammar(provider, format)
  /\ Len(SseFrames(UpstreamBody(sent))) = MaxFrames
  /\ downstream.bytes = UpstreamBody(sent)

\* C4: a streaming call for a pair without a stream mapping ends in a
\* conversion-setup error and forwards none of the upstream bytes.  The
\* converter maps no stream grammar onto another one: the pairs without a
\* mapping are the pairs of different grammars.
C4_FailFastUnsupported ==
  (/\ AnsweredOk /\ StreamRequested /\ ~SameGrammar(provider, format)
   /\ UpstreamBody(sent) # <<>>)
  => /\ downstream.kind = "json"
     /\ downstream.status = 500
     /\ downstream.bytes = <<>>

\* C5: in a streaming call a malformed upstream frame produces no
\* downstream frame (stated for the pairs whose frames are converted).
C5_MalformedFrameSkipped ==
  (AnsweredOk /\ StreamRequested /\ ~SameGrammar(provider, format))
  => \A i \in 1..Len(FrameKinds(downstream.bytes)) :
       FrameKinds(downstream.bytes)[i] # "malformed"

\* C6: while the next upstream chunk of a streaming call is awaited, every
\* complete frame received so far has been delivered downstream.
C6_EmittedBeforeNextRead ==
  (pc = "reading" /\ StreamRequested)
  => SseFrames(downstream.bytes) = SseFrames(UpstreamBody(sent))

\* C7: once the downstream consumer is gone, no further chunk is read from
\* the upstream source.
C7_NoReadAfterDisconnect == [][consumerGone => sent' = sent]_vars

\* C8: the response to a request whose stream flag is absent or false is
\* handled by the non-stream converter, whatever the response headers are.
C8_StreamFlagAlone ==
  (AnsweredOk /\ NoStreamRequested) => downstream.kind = "json"

\* the provider's response carries the members its own schema requires
WellFormedResponse(p, data) ==
  CASE p = "gemini"    -> HasField(data, "candidates")
    [] p = "openai"    -> HasField(data, "choices")
    [] p = "anthropic" -> HasField(data, "content")

\* the body carries the member the target schema requires
InTargetFormat(f, data) ==
  CASE f = "claude" -> HasField(data, "content")
    [] f = "openai" -> HasField(data, "choices")

\* the response is on the non-stream path: no stream asked for, and no
\* response header that marks a stream
NonStreamResponse ==
  /\ NoStreamRequested
  /\ HeaderGet(providerResponse.headers, "content-type") # "text/event-stream"
  /\ HeaderGet(providerResponse.headers, "transfer-encoding") # "chunked"

\* C9: for every (format, provider) pair a well-formed successful
\* non-stream provider response is answered with a JSON body in the target
\* format and the upstream status; no error is raised.
C9_SupportedPairsConvert ==
  (/\ AnsweredOk /\ NonStreamResponse
   /\ ~JsonParse(providerResponse.body).threw
   /\ WellFormedResponse(provider, JsonParse(providerResponse.body).value))
  => /\ downstream.kind = "json"
     /\ downstream.status = providerResponse.status
     /\ InTargetFormat(format, downstream.data)

\* the data a delivered body carries
DataOf(response) ==
  IF response.kind = "json" THEN Ok(response.data)
  ELSE JsonParse(response.bytes)

\* C10: for a same-format pair and a request that asked for no stream, the
\* body handed to the caller carries exactly the data of the provider's
\* JSON response, and the provider's status code.
C10_SameFormatPassThrough ==
  (/\ pc = "done" /\ NoStreamRequested /\ SameGrammar(provider, format)
   /\ providerResponse # NoProviderResponse
   /\ ~JsonParse(UpstreamBody(sent)).threw)
  => /\ DataOf(downstream) = JsonParse(UpstreamBody(sent))
     /\ downstream.status = StatusOfToken(sent[1])

C10_Witness ==
  /\ AnsweredOk /\ NoStreamRequested /\ SameGrammar(provider, format)
  /\ downstream.kind = "json"
  /\ ~JsonParse(UpstreamBody(sent)).threw
  /\ DOMAIN JsonParse(UpstreamBody(sent)).value # {}
  /\ downstream.data = JsonParse(UpstreamBody(sent)).value

\* ============================================ converter calls on responses
\* the parts a Gemini candidate can carry: a part holds one kind of data
GeminiParts ==
  {[text |-> "Bonjour"],
   [text |-> ""],
   [functionCall |-> [name |-> "get_weather", args |-> [city |-> "Paris"]]],
   [functionCall |-> [name |-> "get_time", args |-> <<>>]]}

\* the first candidate: up to MaxParts parts, or a candidate the provider
\* has blocked, which carries no content
FirstCandidates ==
  {[content |-> [parts |-> ps]] : ps \in SeqsUpTo(GeminiParts, MaxParts)}
  \cup {[finishReason |-> "SAFETY"]}

\* the candidates that can follow the first one
OtherCandidates ==
  {[content |-> [parts |-> <<[text |-> "Autre"]>>]],
   [content |-> [parts |-> <<[functionCall |->
                                [name |-> "get_time", args |-> <<>>]]>>]]}

\* the usageMetadata member: absent, complete, partial, or all zeros
GeminiUsages ==
  {<<>>,
   [usageMetadata |-> [promptTokenCount |-> 5, candidatesTokenCount |-> 7,
                       totalTokenCount |-> 12]],
   [usageMetadata |-> [promptTokenCount |-> 5]],
   [usageMetadata |-> [promptTokenCount |-> 0, candidatesTokenCount |-> 0,
                       totalTokenCount |-> 0]]}

\* the documents response.json() can give for a Gemini answer
GeminiResponses ==
  {c @@ u :
     c \in {<<>>, [candidates |-> <<>>]}
           \cup {[candidates |-> <<c0>> \o rest] :
                   c0 \in FirstCandidates,
                   rest \in SeqsUpTo(OtherCandidates, MaxCands - 1)},
     u \in GeminiUsages}

\* the variables of the proxied call, at rest while a converter is observed
callVars == <<format, provider, stream, wire, sent, bodyCuts, rd,
              readerLocked, socketClosed, consumerGone, providerResponse,
              downstream, pc, tables>>

CallAtRest ==
  /\ format = "claude"
  /\ provider = "gemini"
  /\ stream = "absent"
  /\ wire = <<>>
  /\ sent = <<>>
  /\ bodyCuts = 0
  /\ rd = ReaderInit
  /\ readerLocked = FALSE
  /\ socketClosed = FALSE
  /\ consumerGone = FALSE
  /\ providerResponse = NoProviderResponse
  /\ downstream = NoResponse
  /\ pc = "done"
  /\ tables = ModuleTables

\* responseData is a parsed Gemini document; no converter has run yet
InitResp ==
  /\ conv \in {[fn |-> "none", input |-> r] : r \in GeminiResponses}
  /\ call = NoCall
  /\ CallAtRest

\* this.geminiToClaude(responseData)
GeminiToClaude(ids) ==
  /\ conv.fn = "none"
  /\ conv' = [fn |-> "geminiToClaude", input |-> conv.input,
              output |-> geminiToClaude(conv.input, ids)]
  /\ UNCHANGED <<call, callVars>>

\* this.geminiToOpenAI(responseData)
GeminiToOpenAI(ids, now) ==
  /\ conv.fn = "none"
  /\ conv' = [fn |-> "geminiToOpenAI", input |-> conv.input,
              output |-> geminiToOpenAI(conv.input, ids, now)]
  /\ UNCHANGED <<call, callVars>>

NextResp ==
  \/ \E ids \in PartIdSeqs : GeminiToClaude(ids)
  \/ \E ids \in PartIdSeqs, now \in Times : GeminiToOpenAI(ids, now)

SpecResp == InitResp /\ [][NextResp]_vars

\* the converter named fn has returned a document for a Gemini response
Converted(fn) == conv.fn = fn /\ ~conv.output.threw

\* the parts of candidate 0 of the converted Gemini response
Candidate0Parts ==
  IF HasField(conv.input, "candidates") /\ Len(conv.input.candidates) > 0
  THEN conv.input.candidates[1].content.parts
  ELSE <<>>

\* the Claude block is the image of the Gemini part
BlockOfPart(part, block) ==
  IF HasField(part, "text")
  THEN block = [type |-> "text", text |-> part.text]
  ELSE /\ block.type = "tool_use"
       /\ block.name = part.functionCall.name
       /\ block.input = part.functionCall.args

\* the content is the image of the parts, position by position
ContentMatches(parts, content) ==
  /\ Len(content) = Len(parts)
  /\ \A i \in 1..Len(parts) : BlockOfPart(parts[i], content[i])

\* C11 (as stated): geminiToClaude maps the parts of candidate 0 position by
\* position: every text part gives a text block with the same text, every
\* functionCall part a tool_use block with the same name and arguments, in
\* the order of the parts, and none is left out
C11_EveryPartMapped ==
  Converted("geminiToClaude")
    => ContentMatches(Candidate0Parts, conv.output.value.content)

\* C11 (amended): the same, over the parts of candidate 0 other than the
\* text parts whose text is the empty string, which give no block
C11_NonEmptyPartsMapped ==
  Converted("geminiToClaude")
    => ContentMatches(
         SelectSeq(Candidate0Parts,
                   LAMBDA part : ~(HasField(part, "text") /\ part.text = "")),
         conv.output.value.content)

\* two candidates, the first with a text part and then a function call
C11_Witness ==
  /\ Converted("geminiToClaude")
  /\ HasField(conv.input, "candidates")
  /\ Len(conv.input.candidates) = 2
  /\ Candidate0Parts = <<[text |-> "Bonjour"],
                         [functionCall |-> [name |-> "get_weather",
                                            args |-> [city |-> "Paris"]]]>>
  /\ Len(conv.output.value.content) = 2

\* C12: a converted response has a usage member exactly when the Gemini
\* response has a usageMetadata member, and every count in it is a count the
\* source reports: no usage filled in with zeros
C12_UsageIffReported ==
  (Converted("geminiToClaude") \/ Converted("geminiToOpenAI"))
    => /\ HasField(conv.output.value, "usage")
            <=> HasField(conv.input, "usageMetadata")
       /\ HasField(conv.output.value, "usage")
            => \A k \in DOMAIN conv.output.value.usage :
                 \E j \in DOMAIN conv.input.usageMetadata :
                   conv.output.value.usage[k] = conv.input.usageMetadata[j]

\* a Gemini response without usageMetadata, converted to the OpenAI format
C12_Witness ==
  /\ Converted("geminiToOpenAI")
  /\ ~HasField(conv.input, "usageMetadata")
  /\ Len(conv.output.value.choices) = 1
  /\ ~HasField(conv.output.value, "usage")

\* ============================================= converter calls on requests
ModelName == "gemini-2.5-flash"

\* the blocks a Claude message can hold: a user turn holds text and tool
\* results, an assistant turn text and tool uses
ClaudeToolUse ==
  [type |-> "tool_use", id |-> "toolu_1", name |-> "get_weather",
   input |-> [city |-> "Paris"]]

ClaudeToolResult ==
  [type |-> "tool_result", tool_use_id |-> "toolu_1",
   content |-> JsString("22C")]

UserBlocks ==
  {[type |-> "text", text |-> "Hello"], [type |-> "text", text |-> ""],
   ClaudeToolResult}

AssistantBlocks == {[type |-> "text", text |-> "Bonjour"], ClaudeToolUse}

\* message.content is a string or an array of blocks
UserMessages ==
  {[role |-> "user", content |-> c] :
     c \in {JsString("Hello"), JsString("")}
           \cup {JsArray(b) : b \in NonEmptySeqs(UserBlocks, MaxBlocks)}}

AssistantMessages ==
  {[role |-> "assistant", content |-> c] :
     c \in {JsString("Bonjour")}
           \cup {JsArray(b) : b \in NonEmptySeqs(AssistantBlocks, MaxBlocks)}}

\* the conversations of n messages: the user opens, the roles alternate
RECURSIVE ClaudeConversations(_)
ClaudeConversations(n) ==
  IF n = 0 THEN {<<>>}
  ELSE {c \o <<m>> :
          c \in ClaudeConversations(n - 1),
          m \in IF n % 2 = 1 THEN UserMessages ELSE AssistantMessages}

\* the optional members of a request body: none, or all of them
ClaudeOptions ==
  {<<>>,
   [stream |-> TRUE, max_tokens |-> 1024, temperature |-> 0,
    tools |-> <<[name |-> "get_weather", description |-> "weather",
                 input_schema |-> [type |-> "object"]]>>]}

\* the Claude-format request bodies, and one body without messages
ClaudeRequests ==
  {[model |-> ModelName, messages |-> ms] @@ opt :
     ms \in UNION {ClaudeConversations(n) : n \in 1..MaxMsgs},
     opt \in ClaudeOptions}
  \cup {[model |-> ModelName]}

OpenAIToolCall(arguments) ==
  [id |-> "call_1", type |-> "function",
   function |-> [name |-> "get_weather", arguments |-> arguments]]

\* the messages of an OpenAI-format request; a null content is left out
OpenAIMessages ==
  {[role |-> "system", content |-> "Be brief"],
   [role |-> "user", content |-> "Hello"],
   [role |-> "user", content |-> ""],
   [role |-> "assistant", content |-> "Bonjour"],
   [role |-> "assistant",
    tool_calls |-> <<OpenAIToolCall("{\"city\":\"Paris\"}")>>],
   [role |-> "assistant", content |-> "Bonjour",
    tool_calls |-> <<OpenAIToolCall("{\"city\":\"Paris\"}")>>],
   [role |-> "assistant", tool_calls |-> <<OpenAIToolCall("{\"city\":")>>],
   [role |-> "tool", tool_call_id |-> "call_1", content |-> "22C"]}

OpenAIOptions ==
  {<<>>,
   [stream |-> TRUE, max_tokens |-> 1024, temperature |-> 0,
    tools |-> <<[type |-> "function",
                 function |-> [name |-> "get_weather",
                               description |-> "weather",
                               parameters |-> [type |-> "object"]]]>>]}

\* the OpenAI-format request bodies, and one body without messages
OpenAIRequests ==
  {[model |-> ModelName, messages |-> ms] @@ opt :
     ms \in NonEmptySeqs(OpenAIMessages, MaxMsgs), opt \in OpenAIOptions}
  \cup {[model |-> ModelName]}

\* requestBody has been parsed; convertRequest has not run yet
InitReq ==
  /\ \/ conv \in {[fn |-> "none", format |-> "claude", input |-> r] :
                    r \in ClaudeRequests}
     \/ conv \in {[fn |-> "none", format |-> "openai", input |-> r] :
                    r \in OpenAIRequests}
  /\ call = NoCall
  /\ CallAtRest

\* converter.convertRequest(format, provider, requestBody)
ConvertRequest(p) ==
  /\ conv.fn = "none"
  /\ conv' = [fn |-> "convertRequest", format |-> conv.format,
              provider |-> p, input |-> conv.input,
              output |-> convertRequest(conv.format, p, conv.input)]
  /\ UNCHANGED <<call, callVars>>

\* the inverse mapping applied to a converted request: openaiToClaude after
\* claudeToOpenAI, claudeToOpenAI after openaiToClaude
ConvertBack ==
  /\ conv.fn = "convertRequest"
  /\ ~conv.output.threw
  /\ <<conv.format, conv.provider>>
       \in {<<"claude", "openai">>, <<"openai", "anthropic">>}
  /\ conv' = [fn |-> "roundTrip", format |-> conv.format,
              provider |-> conv.provider, input |-> conv.input,
              output |-> conv.output,
              back |-> IF conv.format = "claude"
                       THEN convertRequest("openai", "anthropic",
                                           conv.output.value)
                       ELSE convertRequest("claude", "openai",
                                           conv.output.value)]
  /\ UNCHANGED <<call, callVars>>

NextReq ==
  \/ \E p \in Providers : ConvertRequest(p)
  \/ ConvertBack

SpecReq == InitReq /\ [][NextReq]_vars

\* convertRequest has returned a request converted from `f` for provider `p`
ConvertedFor(f, p) ==
  /\ conv.fn \in {"convertRequest", "roundTrip"}
  /\ conv.format = f
  /\ conv.provider = p
  /\ ~conv.output.threw

\* the request with every bare string content written as one text block
AsTextBlocks(request) ==
  LET ms == request.messages
  IN [request EXCEPT !.messages =
        [i \in 1..Len(ms) |->
           IF ms[i].content.t = "string"
           THEN [role |-> ms[i].role,
                 content |-> JsArray(<<[type |-> "text",
                                        text |-> ms[i].content.s]>>)]
           ELSE ms[i]]]

\* C13: for the providers gemini and openai a Claude-format request is
\* converted to the same output as the request in which every bare string
\* content s is written [{type: text, text: s}], the empty string included;
\* for gemini {role: user, content: "Hello"} gives
\* {role: user, parts: [{text: "Hello"}]}
C13_StringIsOneTextBlock ==
  \A p \in {"gemini", "openai"} :
    ConvertedFor("claude", p)
      => /\ conv.output
              = convertRequest("claude", p, AsTextBlocks(conv.input))
         /\ (p = "gemini"
             /\ conv.input.messages
                  = <<[role |-> "user", content |-> JsString("Hello")]>>)
              => conv.output.value.contents
                   = <<[parts |-> <<[text |-> "Hello"]>>, role |-> "user"]>>

\* a user turn whose content is the empty string, converted for openai
C13_Witness ==
  /\ ConvertedFor("claude", "openai")
  /\ conv.input.messages = <<[role |-> "user", content |-> JsString("")]>>
  /\ conv.output.value.messages = <<[role |-> "user", content |-> ""]>>

\* the converted request holds a message without content: a Gemini entry
\* with no parts, a Claude message with no blocks, or an OpenAI message
\* with neither content nor tool calls
EmptyMessages(targetProvider, request) ==
  IF targetProvider = "gemini"
  THEN {i \in 1..Len(request.contents) : request.contents[i].parts = <<>>}
  ELSE {i \in 1..Len(request.messages) :
          LET m == request.messages[i]
          IN IF HasField(m, "content")
             THEN IF targetProvider = "anthropic"
                  THEN m.content.t = "array" /\ m.content.a = <<>>
                  ELSE FALSE
             ELSE ~HasField(m, "tool_calls")}

\* C14: the output of claudeToGemini, claudeToOpenAI, openaiToGemini and
\* openaiToClaude holds no message with an empty content: a message whose
\* blocks are all filtered out is dropped
C14_NoEmptyMessage ==
  \A f \in Formats, p \in Providers :
    (ConvertedFor(f, p) /\ <<f, p>> \notin {<<"claude", "anthropic">>,
                                            <<"openai", "openai">>})
      => EmptyMessages(p, conv.output.value) = {}

\* the same statement for the three conversions other than claudeToGemini
NoEmptyMessageElsewhere ==
  \A f \in Formats, p \in Providers :
    (ConvertedFor(f, p) /\ <<f, p>> \in {<<"claude", "openai">>,
                                         <<"openai", "gemini">>,
                                         <<"openai", "anthropic">>})
      => EmptyMessages(p, conv.output.value) = {}

\* the texts of the text blocks of a Claude message, in order
RECURSIVE TextsOf(_)
TextsOf(blocks) ==
  IF blocks = <<>> THEN <<>>
  ELSE (IF Head(blocks).type = "text" THEN <<Head(blocks).text>> ELSE <<>>)
       \o TextsOf(Tail(blocks))

\* what identifies the image of a source block in the converted request: its
\* text (for openai the joined text of its message, the content the message
\* gets), the name of its tool, or the id of the tool use it answers
BlockSig(message, block, p) ==
  IF block.type = "text"
  THEN <<"text", IF p = "openai" THEN Join(TextsOf(message.content.a))
                 ELSE block.text>>
  ELSE IF block.type = "tool_use" THEN <<"call", block.name>>
  ELSE <<"result", block.tool_use_id>>

\* the blocks of a Claude-format request, in source order
SourceSigs(request, p) ==
  Flatten([i \in 1..Len(request.messages) |->
             LET m == request.messages[i]
             IN IF m.content.t = "string" THEN <<<<"text", m.content.s>>>>
                ELSE [k \in 1..Len(m.content.a) |->
                        BlockSig(m, m.content.a[k], p)]])

\* the elements of an OpenAI-format request with their place: all elements
\* of one message share the place of the message
OpenAIElems(request) ==
  Flatten([i \in 1..Len(request.messages) |->
             LET m == request.messages[i]
             IN IF m.role = "tool"
                THEN <<[sig |-> <<"result", m.tool_call_id>>,
                        pos |-> <<i, 0>>]>>
                ELSE (IF HasField(m, "content")
                      THEN <<[sig |-> <<"text", m.content>>,
                              pos |-> <<i, 0>>]>>
                      ELSE <<>>)
                     \o (IF HasField(m, "tool_calls")
                         THEN [k \in 1..Len(m.tool_calls) |->
                                 [sig |-> <<"call",
                                            m.tool_calls[k].function.name>>,
                                  pos |-> <<i, 0>>]]
                         ELSE <<>>)])

\* the parts of a Gemini request with their place
GeminiElems(request) ==
  Flatten([i \in 1..Len(request.contents) |->
             LET ps == request.contents[i].parts
             IN [k \in 1..Len(ps) |->
                   [sig |-> IF HasField(ps[k], "text")
                            THEN <<"text", ps[k].text>>
                            ELSE IF HasField(ps[k], "functionCall")
                            THEN <<"call", ps[k].functionCall.name>>
                            ELSE <<"result", "">>,
                    pos |-> <<i, k>>]]])

Before(x, y) == x[1] < y[1] \/ (x[1] = y[1] /\ x[2] < y[2])

\* any two source blocks with different images, each found once in the
\* converted request, have their images in the order of the source
OrderKept(source, elems) ==
  \A i, j \in 1..Len(source) :
    LET ia == {k \in 1..Len(elems) : elems[k].sig = source[i]}
        ib == {k \in 1..Len(elems) : elems[k].sig = source[j]}
    IN (i < j /\ source[i] # source[j]
        /\ Cardinality(ia) = 1 /\ Cardinality(ib) = 1)
         => ~Before(elems[CHOOSE k \in ib : TRUE].pos,
                    elems[CHOOSE k \in ia : TRUE].pos)

\* C15: request conversion never reorders content: of two blocks of a
\* Claude-format conversation that both survive, the image of the earlier
\* one does not come after the image of the later one
C15_OrderKept ==
  /\ ConvertedFor("claude", "openai")
       => OrderKept(SourceSigs(conv.input, "openai"),
                    OpenAIElems(conv.output.value))
  /\ ConvertedFor("claude", "gemini")
       => OrderKept(SourceSigs(conv.input, "gemini"),
                    GeminiElems(conv.output.value))

\* the tool_result blocks of a Claude-format request
ToolResults(request) ==
  {b \in UNION {IF request.messages[i].content.t = "string" THEN {}
                ELSE {request.messages[i].content.a[k] :
                        k \in 1..Len(request.messages[i].content.a)} :
                i \in 1..Len(request.messages)} :
     b.type = "tool_result"}

\* C16: every tool_result block of a Claude-format request has an image in
\* the converted request: for openai a role=tool message with the block's
\* tool_use_id as tool_call_id, for gemini a functionResponse part
C16_ToolResultKept ==
  \A b \in (IF conv.fn = "none" \/ conv.format # "claude"
               \/ ~HasField(conv.input, "messages")
            THEN {} ELSE ToolResults(conv.input)) :
    /\ ConvertedFor("claude", "openai")
         => \E i \in 1..Len(conv.output.value.messages) :
              /\ conv.output.value.messages[i].role = "tool"
              /\ conv.output.value.messages[i].tool_call_id = b.tool_use_id
    /\ ConvertedFor("claude", "gemini")
         => \E i \in 1..Len(conv.output.value.contents) :
              \E k \in 1..Len(conv.output.value.contents[i].parts) :
                HasField(conv.output.value.contents[i].parts[k],
                         "functionResponse")

\* the text of a message of either shape
TextOfClaude(m) ==
  IF m.content.t = "string" THEN m.content.s ELSE Join(TextsOf(m.content.a))

TextOfOpenAI(m) == IF HasField(m, "content") THEN m.content ELSE ""

\* the two requests have the same model, as many messages, and the same
\* text in each message
SameConversation(r, q, TextOf(_)) ==
  /\ HasField(r, "model") /\ HasField(q, "model") /\ r.model = q.model
  /\ Len(r.messages) = Len(q.messages)
  /\ \A i \in 1..Len(r.messages) : TextOf(r.messages[i]) = TextOf(q.messages[i])

\* C17: openaiToClaude(claudeToOpenAI(r)) has the model of r, as many
\* messages as r, in the same order and with the same text; the same holds
\* for claudeToOpenAI(openaiToClaude(q))
C17_RoundTrip ==
  conv.fn = "roundTrip"
    => /\ ~conv.back.threw
       /\ IF conv.format = "claude"
          THEN SameConversation(conv.input, conv.back.value, TextOfClaude)
          ELSE SameConversation(conv.input, conv.back.value, TextOfOpenAI)

\* ================================================ the gates and the dispatch
\* config.AUTH_TOKEN
AUTH_TOKEN == "secret"

\* the property names every object inherits from Object.prototype
InheritedNames == {"constructor", "toString", "__proto__"}

\* PROVIDER_URLS[provider]: an own entry, an inherited property (a function
\* or an object, which are truthy), or undefined, written ""
ProviderUrlLookup(p) ==
  IF p \in DOMAIN PROVIDER_URLS THEN PROVIDER_URLS[p]
  ELSE IF p \in InheritedNames THEN "function Object() { [native code] }"
  ELSE ""

\* step 2 of proxyRequest; an inherited property of MODEL_MAPPING has no
\* entry for a model name
MapModel(p, requestBody) ==
  IF /\ HasField(requestBody, "model")
     /\ p \in DOMAIN MODEL_MAPPING
     /\ requestBody.model \in DOMAIN MODEL_MAPPING[p]
  THEN [requestBody EXCEPT !.model = MODEL_MAPPING[p][requestBody.model]]
  ELSE requestBody

\* an answer of the worker that carries plain text
TextResponse(status) ==
  [kind |-> "text", status |-> status, contentType |-> "",
   bytes |-> <<>>, data |-> <<>>]

\* parseUrl: the error it returns, or status 0 and the parts of the path
parseUrl(parts) ==
  IF Len(parts) < 3 THEN [error |-> 400]
  ELSE IF parts[2] \notin {"claude", "openai"} THEN [error |-> 400]
  ELSE IF ProviderUrlLookup(parts[3]) = "" THEN [error |-> 400]
  ELSE [error |-> 0, token |-> parts[1], format |-> parts[2],
        provider |-> parts[3], endpoint |-> SubSeq(parts, 4, Len(parts))]

\* value.replace('Bearer ', '')
StripBearer(value) == IF value = "Bearer sk-1" THEN "sk-1" ELSE value

\* getApiKey: headers.get gives null, written "", for a missing header
getApiKey(headers) ==
  IF HeaderGet(headers, "x-api-key") # ""
  THEN HeaderGet(headers, "x-api-key")
  ELSE StripBearer(HeaderGet(headers, "authorization"))

\* new URL(targetUrl) accepts the URLs of the table and throws on the text
\* of an inherited property
UrlParses(base) == base \in {PROVIDER_URLS[p] : p \in Providers}

\* JSON.stringify(value) of a request body: the text, written as the value
\* it spells
JsonText(value) == [json |-> value]

\* JSON.stringify of the promise convertRequest returned: a promise has no
\* enumerable property of its own, the text is that of the empty object
StringifiedPromise == JsonText(<<>>)

\* the request bodies a caller can post: their text parses to a request of
\* the format of the URL, or does not parse
BodyKinds == {"valid", "noMessages", "badArguments", "notJson"}

RequestJson(f, kind) ==
  IF kind = "notJson" THEN Threw("SyntaxError")
  ELSE IF kind = "noMessages" THEN Ok([model |-> ModelName])
  ELSE IF f = "openai"
  THEN Ok([model |-> ModelName,
           messages |->
             <<[role |-> "user", content |-> "Hello"],
               [role |-> "assistant",
                tool_calls |->
                  <<OpenAIToolCall(IF kind = "badArguments"
                                   THEN "{\"city\":"
                                   ELSE "{\"city\":\"Paris\"}")>>]>>])
  ELSE Ok([model |-> ModelName,
           messages |->
             <<[role |-> "user", content |-> JsString("Hello")]>>])

\* the inbound requests: method, path segments, key headers, body
Paths ==
  {<<"secret">>, <<"secret", "claude">>}
  \cup {<<t, f, p>> \o e :
          t \in {"secret", "guess"},
          f \in {"claude", "openai", "gemini"},
          p \in {"gemini", "openai", "anthropic", "mistral", "constructor"},
          e \in {<<>>, <<"v1", "messages">>}}

KeyHeaders ==
  {<<>>, [authorization |-> "Bearer sk-1"],
   ("x-api-key" :> "sk-1"), ("x-api-key" :> "")}

NoConversion == [threw |-> FALSE, value |-> <<>>, called |-> FALSE]

\* --- header names: a name is a sequence of tokens, so that a prefix of a
\* name is a prefix of the sequence
\* String.prototype.toLowerCase on one token
LowerToken(tok) ==
  CASE tok = "CF-" -> "cf-"
    [] tok = "X-Forwarded-" -> "x-forwarded-"
    [] tok = "Host" -> "host"
    [] tok = "Content-Type" -> "content-type"
    [] tok = "Connecting-IP" -> "connecting-ip"
    [] tok = "For" -> "for"
    [] tok = "Authorization" -> "authorization"
    [] tok = "Connection" -> "connection"
    [] OTHER -> tok

toLowerCase(name) == [i \in DOMAIN name |-> LowerToken(name[i])]

\* name.startsWith(prefix)
StartsWith(name, prefix) ==
  /\ Len(name) >= Len(prefix)
  /\ SubSeq(name, 1, Len(prefix)) = prefix

\* the headers that reach the worker beside the key headers: what the
\* caller sent and what the edge added, with the case they were written in
InboundHeaderSets ==
  {{},
   {[name |-> <<"CF-", "Connecting-IP">>, value |-> "203.0.113.7"],
    [name |-> <<"X-Forwarded-", "For">>, value |-> "203.0.113.7"],
    [name |-> <<"Host">>, value |-> "proxy.example.workers.dev"],
    [name |-> <<"Content-Type">>, value |-> "application/json"]},
   {[name |-> <<"cf-", "ray">>, value |-> "8a1b2c3d"],
    [name |-> <<"x-forwarded-", "proto">>, value |-> "https"],
    [name |-> <<"host">>, value |-> "proxy.example.workers.dev"],
    [name |-> <<"x-", "cf-", "trace">>, value |-> "1"],
    [name |-> <<"host", "name">>, value |-> "edge-7"]}}

\* the entries `for (const [key, value] of request.headers)` yields: a
\* Headers object holds every name in lower case
HeaderEntries(keyHeaders, inbound) ==
  {[name |-> <<k>>, value |-> keyHeaders[k]] : k \in DOMAIN keyHeaders}
  \cup {[name |-> toLowerCase(h.name), value |-> h.value] : h \in inbound}

\* new URL(targetUrl).hostname for the URLs of the table
Hostname(base) ==
  CASE base = "https://generativelanguage.googleapis.com/v1beta"
         -> "generativelanguage.googleapis.com"
    [] base = "https://api.openai.com/v1" -> "api.openai.com"
    [] base = "https://api.anthropic.com/v1" -> "api.anthropic.com"

\* `Bearer ${apiKey}` for the keys a caller presents
BearerOf(apiKey) == CASE apiKey = "sk-1" -> "Bearer sk-1"

\* the header that carries the API key, chosen by the hostname; the
\* hostnames of the table contain no other hostname of the table
AuthHeader(hostname, apiKey) ==
  IF apiKey = "" THEN <<>>
  ELSE IF hostname = "generativelanguage.googleapis.com"
  THEN (<<"x-goog-api-key">> :> apiKey)
  ELSE IF hostname = "api.openai.com"
  THEN (<<"Authorization">> :> BearerOf(apiKey))
  ELSE IF hostname = "api.anthropic.com"
  THEN (<<"x-api-key">> :> apiKey)
  ELSE <<>>

\* buildCleanHeaders without the test of the x-forwarded- prefix
buildCleanHeadersKeepsForwarded(entries, hostname, apiKey) ==
  LET kept == {e \in entries :
                 LET keyLower == toLowerCase(e.name)
                 IN /\ ~StartsWith(keyLower, <<"cf-">>)
                    /\ keyLower # <<"host">>}
      copied == [n \in {e.name : e \in kept} |->
                   (CHOOSE e \in kept : e.name = n).value]
  IN AuthHeader(hostname, apiKey)
       @@ (<<"Host">> :> hostname) @@ (<<"Connection">> :> "close")
       @@ copied

\* buildCleanHeaders: the Map of the headers written to the socket; a later
\* set of a name replaces the value of an earlier one
buildCleanHeaders(entries, hostname, apiKey) ==
  LET kept == {e \in entries :
                 LET keyLower == toLowerCase(e.name)
                 IN /\ ~StartsWith(keyLower, <<"cf-">>)
                    /\ ~StartsWith(keyLower, <<"x-forwarded-">>)
                    /\ keyLower # <<"host">>}
      copied == [n \in {e.name : e \in kept} |->
                   (CHOOSE e \in kept : e.name = n).value]
  IN AuthHeader(hostname, apiKey)
       @@ (<<"Host">> :> hostname) @@ (<<"Connection">> :> "close")
       @@ copied

\* a request has reached the fetch handler
InitDispatch ==
  /\ call \in {[pc |-> "received", method |-> m, path |-> ps,
                headers |-> h, body |-> b, format |-> "", provider |-> "",
                endpoint |-> <<>>, apiKey |-> "",
                conversion |-> NoConversion, connected |-> FALSE,
                upstream |-> <<>>, raised |-> {},
                inbound |-> ih, written |-> <<>>,
                response |-> NoResponse] :
                 m \in {"POST", "GET"}, ps \in Paths, h \in KeyHeaders,
                 b \in BodyKinds, ih \in InboundHeaderSets}
  /\ conv = NoConv
  /\ CallAtRest

\* handleRequest up to the call of proxyRequest: the four gates
HandleRequest ==
  /\ call.pc = "received"
  /\ LET url == parseUrl(call.path)
         apiKey == getApiKey(call.headers)
         refuse(status) ==
           [call EXCEPT !.pc = "done", !.response = TextResponse(status)]
     IN call' =
          IF call.method # "POST" THEN refuse(405)
          ELSE IF url.error # 0 THEN refuse(url.error)
          ELSE IF url.token # AUTH_TOKEN THEN refuse(401)
          ELSE IF apiKey = "" THEN refuse(401)
          ELSE [call EXCEPT !.pc = "proxying", !.format = url.format,
                            !.provider = url.provider,
                            !.endpoint = url.endpoint, !.apiKey = apiKey]
  /\ UNCHANGED <<conv, callVars>>

\* proxyRequest steps 1 to 6, up to the connect of SocketTransport.fetch:
\* the promise of convertRequest is not awaited, so its outcome changes
\* nothing and the body of the proxy request is the text of the promise
ProxyRequest ==
  /\ call.pc = "proxying"
  /\ LET requestBody == RequestJson(call.format, call.body)
         conversion ==
           convertRequest(call.format, call.provider,
                          MapModel(call.provider, requestBody.value))
         fail(message, kind) ==
           [call EXCEPT !.pc = "done", !.response = ProxyError(message),
                        !.raised = @ \cup {kind}]
         rejected == IF conversion.threw THEN {"conversion"} ELSE {}
     IN call' =
          IF requestBody.threw THEN fail(requestBody.error, "body")
          ELSE IF ~UrlParses(ProviderUrlLookup(call.provider))
          THEN [fail("Invalid URL", "transport") EXCEPT
                  !.conversion = conversion @@ [called |-> TRUE],
                  !.raised = @ \cup rejected]
          ELSE [call EXCEPT !.pc = "connecting",
                            !.conversion = conversion @@ [called |-> TRUE],
                            !.raised = @ \cup rejected]
  /\ UNCHANGED <<conv, callVars>>

\* connect() resolves: the request line, the headers and the body are
\* written to the socket
Connected ==
  /\ call.pc = "connecting"
  /\ call' = [call EXCEPT
                !.pc = "sent", !.connected = TRUE,
                !.written =
                  buildCleanHeaders(
                    HeaderEntries(call.headers, call.inbound),
                    Hostname(ProviderUrlLookup(call.provider)), call.apiKey),
                !.upstream = <<ProviderUrlLookup(call.provider),
                               call.endpoint, StringifiedPromise>>]
  /\ UNCHANGED <<conv, callVars>>

\* connect() rejects: the catch of the fetch handler answers 500
ConnectFailed ==
  /\ call.pc = "connecting"
  /\ call' = [call EXCEPT !.pc = "done",
                          !.response = ProxyError("connect failed"),
                          !.raised = @ \cup {"transport"}]
  /\ UNCHANGED <<conv, callVars>>

\* a write or a read on the socket rejects: SocketTransport.fetch closes the
\* socket and rethrows, the catch of the fetch handler answers 500
TransportFailed ==
  /\ call.pc = "sent"
  /\ call' = [call EXCEPT !.pc = "done",
                          !.response = ProxyError("Socket transport failed"),
                          !.raised = @ \cup {"transport"}]
  /\ UNCHANGED <<conv, callVars>>

\* the answers a provider gives to a request without the stream member
ProviderAnswers(p) ==
  {[status |-> st, headers |-> ("content-type" :> "application/json"),
    body |-> b] : st \in {200, 429}, b \in {<<>>} \cup JsonBodies(p)}

\* transport.fetch resolves: proxyRequest steps 7 and 8, and the catch of
\* the fetch handler
ProviderAnswered(answer, ids, now) ==
  /\ call.pc = "sent"
  /\ answer \in ProviderAnswers(call.provider)
  /\ LET r == convertResponse(call.format, call.provider, answer, "absent",
                              ids, now)
     IN call' =
          IF ~ResponseOk(answer.status)
          THEN [call EXCEPT
                  !.pc = "done",
                  !.response =
                    BytesResponse(answer.status,
                                  HeaderGet(answer.headers, "content-type"),
                                  answer.body)]
          ELSE IF r.threw
          THEN [call EXCEPT !.pc = "done", !.response = ProxyError(r.error),
                            !.raised = @ \cup {"response"}]
          ELSE [call EXCEPT !.pc = "done", !.response = r.value]
  /\ UNCHANGED <<conv, callVars>>

NextDispatch ==
  \/ HandleRequest
  \/ ProxyRequest
  \/ Connected
  \/ ConnectFailed
  \/ TransportFailed
  \/ \E p \in Providers, ids \in IdSeqs, now \in Times :
       \E answer \in ProviderAnswers(p) : ProviderAnswered(answer, ids, now)

SpecDispatch == InitDispatch /\ [][NextDispatch]_vars

\* C18: when the conversion of the inbound request fails, the call ends
\* with an error response, no connection to the provider is opened and no
\* byte is sent upstream
C18_FailedConversionStopsCall ==
  (call.pc \in {"connecting", "sent", "done"} /\ call.conversion.called
   /\ call.conversion.threw)
    => /\ ~call.connected
       /\ call.upstream = <<>>
       /\ call.pc = "done" => call.response.status >= 400

\* the gates of the claim, on the request as it arrived
PassesGates ==
  /\ call.method = "POST"
  /\ Len(call.path) >= 3
  /\ call.path[2] \in {"claude", "openai"}
  /\ call.path[3] \in {"gemini", "openai", "anthropic"}
  /\ call.path[1] = AUTH_TOKEN
  /\ \/ HeaderGet(call.headers, "x-api-key") # ""
     \/ HeaderGet(call.headers, "authorization") # ""

\* C19: a connection is opened only for a request that passed every gate;
\* a request failing a gate is answered 405 (method), 400 (path, format,
\* provider) or 401 (token, API key) and causes no upstream call
C19_GatesBeforeUpstream ==
  call.pc # "none"
    => /\ call.connected => PassesGates
       /\ (call.pc = "done" /\ ~PassesGates)
            => /\ ~call.connected
               /\ \/ call.response.status = 405 /\ call.method # "POST"
                  \/ /\ call.response.status = 400
                     /\ \/ Len(call.path) < 3
                        \/ call.path[2] \notin {"claude", "openai"}
                        \/ call.path[3]
                             \notin {"gemini", "openai", "anthropic"}
                  \/ /\ call.response.status = 401
                     /\ Len(call.path) >= 3
                     /\ \/ call.path[1] # AUTH_TOKEN
                        \/ /\ HeaderGet(call.headers, "x-api-key") = ""
                           /\ HeaderGet(call.headers, "authorization") = ""

\* the catch of the fetch handler has answered: status 500 and a JSON body
\* with the members error and type alone
IsProxyError(response) ==
  /\ response.status = 500
  /\ response.kind = "json"
  /\ DOMAIN response.data = {"error", "type"}
  /\ response.data.type = "proxy_error"

\* C21: whichever step fails (body parsing, request conversion, socket
\* transport, response conversion), the call ends with the 500 proxy_error
\* answer of the fetch handler; no failure goes by uncaught
C21_EveryFailureCaught ==
  (call.pc = "done" /\ call.raised # {}) => IsProxyError(call.response)

\* C25: the body sent to the provider is the JSON text of the provider
\* request convertRequest produced for the format, the provider and the
\* body with its mapped model; never the text of an empty object or of a
\* value not yet resolved
C25_BodyIsConvertedRequest ==
  call.connected
    => /\ ~call.conversion.threw
       /\ DOMAIN call.upstream[3].json # {}
       /\ call.upstream[3] = JsonText(call.conversion.value)

\* C23: no inbound header whose name starts with cf- or x-forwarded-, in
\* any case, is written to the provider, and the Host header written is
\* the hostname of the provider
C23_NoPrivacyHeaderUpstream ==
  call.connected
    => \A n \in DOMAIN call.written :
         /\ ~StartsWith(toLowerCase(n), <<"cf-">>)
         /\ ~StartsWith(toLowerCase(n), <<"x-forwarded-">>)
         /\ toLowerCase(n) = <<"host">>
              => /\ n = <<"Host">>
                 /\ call.written[n] = Hostname(PROVIDER_URLS[call.provider])

\* a request that came with CF-Connecting-IP, X-Forwarded-For and the Host
\* of the worker is on the wire, its Content-Type copied
C23_Witness ==
  /\ call.connected
  /\ \E h \in call.inbound : h.name = <<"CF-", "Connecting-IP">>
  /\ \E h \in call.inbound : h.name = <<"X-Forwarded-", "For">>
  /\ \E h \in call.inbound :
       h.name = <<"Host">> /\ h.value = "proxy.example.workers.dev"
  /\ <<"content-type">> \in DOMAIN call.written
  /\ call.written[<<"Host">>] = "api.anthropic.com"

\* ============================================== provider error responses
\* the provider's answer has arrived with its header block and carries a
\* status outside 200..299
ProviderRefused ==
  /\ pc = "done"
  /\ providerResponse # NoProviderResponse
  /\ rd.headersParsed
  /\ StatusOfToken(sent[1]) \notin 200..299

\* C20: when the provider answers with a non-success status the caller
\* receives that status and the bytes of that body as they are; no response
\* conversion, stream or non-stream, is applied
C20_ErrorPassedThrough ==
  ProviderRefused
    => /\ downstream.status = StatusOfToken(sent[1])
       /\ downstream.kind = "bytes"
       /\ downstream.bytes = UpstreamBody(sent)
       /\ downstream.contentType
            = HeaderGet(providerResponse.headers, "content-type")

\* a 429 with a JSON body, answered to a request that asked for no stream
C20_Witness ==
  /\ ProviderRefused
  /\ NoStreamRequested
  /\ downstream.status = 429
  /\ ~JsonParse(UpstreamBody(sent)).threw
  /\ downstream.bytes = UpstreamBody(sent)
  /\ Len(downstream.bytes) > 2

\* ================================================== leaving the transport
\* SocketTransport.fetch has returned or thrown after connect
LeftTransport == pc \in {"responding", "done"}

C27_OkOnlyAfterHeaderBlock ==
  /\ LeftTransport
  /\ providerResponse # NoProviderResponse
  /\ ResponseOk(providerResponse.status)
  => /\ findHeaderEnd(sent) # -1
     /\ StatusOfToken(sent[1]) \in 200..299

\* ================================================= OpenAI tool messages
\* the number of role=tool messages of an OpenAI-format request
ToolMessageCount(request) ==
  Cardinality({i \in 1..Len(request.messages) :
                 request.messages[i].role = "tool"})

\* the messages of a Claude-format request that carry a tool_result block
ToolResultMessages(request) ==
  {i \in 1..Len(request.messages) :
     /\ request.messages[i].content.t = "array"
     /\ \E k \in 1..Len(request.messages[i].content.a) :
          request.messages[i].content.a[k].type = "tool_result"}

\* the contents of a Gemini request that carry a functionResponse part
FunctionResponseContents(request) ==
  {i \in 1..Len(request.contents) :
     \E k \in 1..Len(request.contents[i].parts) :
       HasField(request.contents[i].parts[k], "functionResponse")}

\* C30: an OpenAI message with role tool becomes a target message with
\* exactly one element, the one that carries the tool output: for anthropic
\* one tool_result block whose tool_use_id is the tool_call_id, for gemini
\* one functionResponse part; the output is not emitted again as text
C30_ToolMessageOneElement ==
  /\ ConvertedFor("openai", "anthropic")
       => LET out == conv.output.value
          IN /\ Cardinality(ToolResultMessages(out))
                  = ToolMessageCount(conv.input)
             /\ \A i \in ToolResultMessages(out) :
                  /\ Len(out.messages[i].content.a) = 1
                  /\ out.messages[i].content.a[1].type = "tool_result"
                  /\ out.messages[i].content.a[1].tool_use_id = "call_1"
  /\ ConvertedFor("openai", "gemini")
       => LET out == conv.output.value
          IN /\ Cardinality(FunctionResponseContents(out))
                  = ToolMessageCount(conv.input)
             /\ \A i \in FunctionResponseContents(out) :
                  Len(out.contents[i].parts) = 1

\* ================================ endpoint resolution (index.js, revised)
\* The revision of index.js with a mapping table by format and provider and
\* with buildEndpoint.  A path and a model name are sequences of tokens, so
\* that a suffix of a path is a suffix of the sequence.
MaxSegs == 2

\* MODEL_MAPPING[format][provider][model]
ModelMappingByFormat ==
  [claude |->
     [gemini |-> (<<"gemini-2.5-pro">> :> <<"models/", "gemini-2.0-flash-exp">>)
                 @@ (<<"gemini-2.5-flash">>
                       :> <<"models/", "gemini-2.0-flash-exp">>),
      openai |-> (<<"gpt-4o">> :> <<"gpt-4o">>),
      anthropic |-> (<<"claude-3-5-sonnet-20240620">>
                       :> <<"claude-3-5-sonnet-20240620">>)],
   openai |->
     [gemini |-> (<<"gemini-pro">> :> <<"models/", "gemini-pro">>)
                 @@ (<<"gemini-2.5-flash">>
                       :> <<"models/", "gemini-2.0-flash-exp">>),
      openai |-> (<<"gpt-4o">> :> <<"gpt-4o">>)
                 @@ (<<"gpt-4o-mini">> :> <<"gpt-4o-mini">>),
      anthropic |-> (<<"claude-3-sonnet">> :> <<"claude-3-5-sonnet-20240620">>)
                    @@ (<<"claude-3-haiku">> :> <<"claude-3-haiku-20240725">>)]]

\* finalModel: the mapped name when the table has one, else the name of the
\* request; <<>> stands for a request without a model
MapModelByFormat(f, p, model) ==
  IF /\ model # <<>>
     /\ f \in DOMAIN ModelMappingByFormat
     /\ p \in DOMAIN ModelMappingByFormat[f]
     /\ model \in DOMAIN ModelMappingByFormat[f][p]
  THEN ModelMappingByFormat[f][p][model]
  ELSE model

\* `${model}` in a template: undefined is written out as a word
TemplateText(model) == IF model = <<>> THEN <<"undefined">> ELSE model

\* the keys of endpointRules.gemini in the order for-in visits them
RuleSuffixes ==
  <<(<<"chat/", "completions">>), (<<"messages">>), (<<"embedContent">>),
    (<<"embedText">>)>>

\* endpointRules[provider], <<>> for a provider without rules
endpointRules(p, isStream) ==
  LET chat == IF isStream THEN ":streamGenerateContent"
              ELSE ":generateContent"
  IN IF p = "gemini"
     THEN (<<"chat/", "completions">> :> [action |-> chat, needsModel |-> TRUE])
          @@ (<<"messages">> :> [action |-> chat, needsModel |-> TRUE])
          @@ (<<"embedContent">>
                :> [action |-> ":embedContent", needsModel |-> TRUE])
          @@ (<<"embedText">>
                :> [action |-> ":embedText", needsModel |-> TRUE])
     ELSE <<>>

\* endpoint.endsWith(pathSuffix)
EndsWith(endpoint, pathSuffix) ==
  /\ Len(endpoint) >= Len(pathSuffix)
  /\ SubSeq(endpoint, Len(endpoint) - Len(pathSuffix) + 1, Len(endpoint))
       = pathSuffix

\* the for-in loop of buildEndpoint from the i-th key on
RECURSIVE buildEndpointLoop(_, _, _, _)
buildEndpointLoop(rules, endpoint, model, i) ==
  IF i > Len(RuleSuffixes) THEN endpoint
  ELSE LET pathSuffix == RuleSuffixes[i]
       IN IF pathSuffix \in DOMAIN rules /\ EndsWith(endpoint, pathSuffix)
          THEN LET rule == rules[pathSuffix]
                   basePath == SubSeq(endpoint, 1,
                                      Len(endpoint) - Len(pathSuffix))
                   modelPath == IF rule.needsModel
                                THEN <<"models/">> \o TemplateText(model)
                                ELSE <<>>
               IN basePath \o modelPath \o <<rule.action>>
          ELSE buildEndpointLoop(rules, endpoint, model, i + 1)

\* buildEndpoint with the action of a rule taken without the stream flag
buildEndpointNeverStreams(f, p, endpoint, model, isStream) ==
  buildEndpointLoop(endpointRules(p, FALSE), endpoint, model, 1)

buildEndpoint(f, p, endpoint, model, isStream) ==
  buildEndpointLoop(endpointRules(p, isStream), endpoint, model, 1)

\* the pieces an endpoint path is made of; the query string comes last
PathTokens ==
  {"v1beta/", "chat/", "completions", "messages", "embedContent",
   "embedText", "my", "?alt=sse"}

Endpoints == SeqsUpTo(PathTokens, MaxSegs)

\* requestBody.model: absent, a name of the table, a name outside it
RequestModels ==
  {<<>>, <<"gemini-2.5-pro">>, <<"gemini-2.5-flash">>, <<"gemini-pro">>,
   <<"gpt-4o">>, <<"my-model">>}

\* the headers of a provider's answer that the response-mode test reads
AnswerHeaders ==
  {("content-type" :> "application/json"),
   ("content-type" :> "text/event-stream"),
   ("content-type" :> "application/json")
     @@ ("transfer-encoding" :> "chunked")}

\* the request has passed the gates and its body is parsed
InitEndpoint ==
  /\ call \in {[pc |-> "parsed", format |-> f, provider |-> p,
                endpoint |-> e, model |-> m, stream |-> sv,
                finalModel |-> <<>>, isStream |-> FALSE,
                finalEndpoint |-> <<>>, answer |-> NoHeaders,
                asStream |-> FALSE] :
                 f \in Formats, p \in Providers, e \in Endpoints,
                 m \in RequestModels, sv \in StreamVals}
  /\ conv = NoConv
  /\ CallAtRest

\* proxyRequest, the model mapping, up to the await of convertRequest
MapModelName ==
  /\ call.pc = "parsed"
  /\ call' = [call EXCEPT
                !.pc = "mapped",
                !.finalModel =
                  MapModelByFormat(call.format, call.provider, call.model)]
  /\ UNCHANGED <<conv, callVars>>

\* proxyRequest, the stream flag and the endpoint, up to the await of
\* transport.fetch
ResolveEndpoint ==
  /\ call.pc = "mapped"
  /\ LET isStream == call.stream = "true"
     IN call' = [call EXCEPT
                   !.pc = "resolved",
                   !.isStream = isStream,
                   !.finalEndpoint =
                     buildEndpoint(call.format, call.provider, call.endpoint,
                                   call.finalModel, isStream)]
  /\ UNCHANGED <<conv, callVars>>

\* the provider has answered with a success status: convertResponse takes
\* the stream branch or the conversion branch
ChooseResponseMode(headers) ==
  /\ call.pc = "resolved"
  /\ call' = [call EXCEPT
                !.pc = "answered",
                !.answer = headers,
                !.asStream =
                  isStreamResponse([headers |-> headers], call.stream)]
  /\ UNCHANGED <<conv, callVars>>

NextEndpoint ==
  \/ MapModelName
  \/ ResolveEndpoint
  \/ \E headers \in AnswerHeaders : ChooseResponseMode(headers)

SpecEndpoint == InitEndpoint /\ [][NextEndpoint]_vars

\* the endpoint has been resolved
Resolved == call.pc \in {"resolved", "answered"}

\* the suffixes of the table the path of the call ends with
MatchingSuffixes ==
  {i \in 1..Len(RuleSuffixes) : EndsWith(call.endpoint, RuleSuffixes[i])}

\* C22: for gemini a path ending with a suffix of the table has the suffix
\* replaced by models/<model>:<action>, its prefix kept, the action being
\* streamGenerateContent under the stream flag and generateContent without
\* it for chat/completions and messages; a path matching no suffix, and
\* any path of a provider without rules, comes back as it is; no path
\* matches two suffixes
C22_EndpointResolution ==
  Resolved
    => /\ Cardinality(MatchingSuffixes) <= 1
       /\ \A i \in MatchingSuffixes :
            call.provider = "gemini"
              => LET action ==
                       IF i <= 2
                       THEN IF call.isStream THEN ":streamGenerateContent"
                            ELSE ":generateContent"
                       ELSE IF i = 3 THEN ":embedContent" ELSE ":embedText"
                 IN call.finalEndpoint
                      = SubSeq(call.endpoint, 1,
                               Len(call.endpoint) - Len(RuleSuffixes[i]))
                        \o <<"models/">> \o TemplateText(call.finalModel)
                        \o <<action>>
       /\ (MatchingSuffixes = {} \/ call.provider # "gemini")
            => call.finalEndpoint = call.endpoint

\* a streaming messages call for gemini under a prefix
C22_Witness ==
  /\ Resolved
  /\ call.provider = "gemini"
  /\ call.endpoint = <<"v1beta/", "messages">>
  /\ call.isStream
  /\ call.finalModel = <<"my-model">>
  /\ call.finalEndpoint
       = <<"v1beta/", "models/", "my-model", ":streamGenerateContent">>

\* C28: the stream flag is read alike in both places: the endpoint
\* resolver gets isStream = true exactly when the response-mode test takes
\* the request for a streaming one; for no value of the flag is the
\* non-stream action called while the response is handled as a stream
C28_StreamFlagReadAlike ==
  (call.pc = "answered"
   /\ ~IncludesEventStream(HeaderGet(call.answer, "content-type"))
   /\ HeaderGet(call.answer, "transfer-encoding") # "chunked")
    => (call.isStream <=> call.asStream)

\* the number of models/ tokens of a path
RECURSIVE ModelsSegments(_)
ModelsSegments(path) ==
  IF path = <<>> THEN 0
  ELSE (IF Head(path) = "models/" THEN 1 ELSE 0) + ModelsSegments(Tail(path))

\* C29: for gemini and every model name of the mapping table, the path
\* that model mapping and endpoint resolution produce holds models/ once
\* before the provider's name of the model, never models/models/<name>
C29_ModelsSegmentOnce ==
  (/\ Resolved
   /\ call.provider = "gemini"
   /\ call.model \in DOMAIN ModelMappingByFormat[call.format].gemini
   /\ MatchingSuffixes # {})
    => ModelsSegments(call.finalEndpoint) = 1

\* ====================================================== concurrent calls
\* Several invocations of the fetch handler in one isolate: each runs
\* proxyRequest with its own transport, converter and requestBody, and they
\* interleave at the awaits.  What they share is the objects of module scope.
MaxCalls == 2

Calls == 1..MaxCalls

\* the requests of the concurrent calls: provider and body
CallInputs ==
  {[provider |-> p, requestBody |-> b] :
     p \in Providers,
     b \in {<<>>, [model |-> "gemini-2.5-flash"], [model |-> "gpt-4o"],
            [model |-> "claude-3-haiku"]}}

\* step 2 of proxyRequest on the objects of module scope as they are: the
\* tables are read, the body of the call is written
MapModelStepCaches(shared, p, requestBody) ==
  [tables |-> IF HasField(requestBody, "model")
              THEN [shared EXCEPT
                      !.MODEL_MAPPING[p] =
                        (requestBody.model :> requestBody.model) @@ @]
              ELSE shared,
   requestBody |->
     IF /\ HasField(requestBody, "model")
        /\ p \in DOMAIN shared.MODEL_MAPPING
        /\ requestBody.model \in DOMAIN shared.MODEL_MAPPING[p]
     THEN [requestBody EXCEPT
             !.model = shared.MODEL_MAPPING[p][requestBody.model]]
     ELSE requestBody]

MapModelStep(shared, p, requestBody) ==
  [tables |-> shared,
   requestBody |->
     IF /\ HasField(requestBody, "model")
        /\ p \in DOMAIN shared.MODEL_MAPPING
        /\ requestBody.model \in DOMAIN shared.MODEL_MAPPING[p]
     THEN [requestBody EXCEPT
             !.model = shared.MODEL_MAPPING[p][requestBody.model]]
     ELSE requestBody]

\* every call has passed the gates and entered proxyRequest
InitCalls ==
  /\ call \in [Calls -> {[pc |-> "proxying", input |-> in,
                          requestBody |-> <<>>, targetUrl |-> "",
                          status |-> 0] : in \in CallInputs}]
  /\ conv = NoConv
  /\ format = "claude"
  /\ provider = "gemini"
  /\ stream = "absent"
  /\ wire = <<>>
  /\ sent = <<>>
  /\ bodyCuts = 0
  /\ rd = ReaderInit
  /\ readerLocked = FALSE
  /\ socketClosed = FALSE
  /\ consumerGone = FALSE
  /\ providerResponse = NoProviderResponse
  /\ downstream = NoResponse
  /\ pc = "done"
  /\ tables = ModuleTables

callLocals == <<format, provider, stream, wire, sent, bodyCuts, rd,
                readerLocked, socketClosed, consumerGone, providerResponse,
                downstream, pc, conv>>

\* call i: request.json() resolves
BodyParsed(i) ==
  /\ call[i].pc = "proxying"
  /\ call' = [call EXCEPT ![i].pc = "parsed",
                          ![i].requestBody = call[i].input.requestBody]
  /\ UNCHANGED <<tables, callLocals>>

\* call i: steps 2 to 6 of proxyRequest up to the connect of its transport
MappedAndSent(i) ==
  /\ call[i].pc = "parsed"
  /\ LET step == MapModelStep(tables, call[i].input.provider,
                              call[i].requestBody)
     IN /\ tables' = step.tables
        /\ call' = [call EXCEPT
                      ![i].pc = "sent",
                      ![i].requestBody = step.requestBody,
                      ![i].targetUrl =
                        step.tables.PROVIDER_URLS[call[i].input.provider]]
  /\ UNCHANGED callLocals

\* call i: its transport resolves with the provider's answer or rejects
CallAnswered(i, status) ==
  /\ call[i].pc = "sent"
  /\ call' = [call EXCEPT ![i].pc = "done", ![i].status = status]
  /\ UNCHANGED <<tables, callLocals>>

NextCalls ==
  \E i \in Calls :
    \/ BodyParsed(i)
    \/ MappedAndSent(i)
    \/ \E status \in {200, 429, 500} : CallAnswered(i, status)

SpecCalls == InitCalls /\ [][NextCalls]_vars

\* C24: concurrent calls do not interfere: the objects of module scope,
\* PROVIDER_URLS and MODEL_MAPPING, are never written, and what a call
\* sends is what it would send alone, whatever the other calls have done
C24_CallsDoNotInterfere ==
  /\ tables = ModuleTables
  /\ \A i \in Calls :
       call[i].pc \in {"sent", "done"}
         => /\ call[i].targetUrl = PROVIDER_URLS[call[i].input.provider]
            /\ call[i].requestBody
                 = MapModel(call[i].input.provider, call[i].input.requestBody)

\* a call has mapped its model and sent its request while another call,
\* with another provider and a model of its own, waits for its body
C24_Witness ==
  \E i, j \in Calls :
    /\ call[i].pc = "sent"
    /\ call[j].pc = "proxying"
    /\ call[i].input.provider # call[j].input.provider
    /\ HasField(call[i].input.requestBody, "model")
    /\ HasField(call[j].input.requestBody, "model")
    /\ call[i].requestBody # call[i].input.requestBody
    /\ call[j].input.requestBody # call[i].input.requestBody

====
